---- MODULE Spec2Model ----
(***************************************************************************)
(* Citadel POW back end: the accumulated-sats ledger (stored procedures    *)
(* add_accumulated_sats / deduct_accumulated_sats behind the routes        *)
(* POST /api/accumulated-sats/add and /deduct), the donation status        *)
(* machine (PATCH /api/donations/:donationId/status), the meet-ups         *)
(* (creation, QR codes, check-in, join, leave, donation), the ranking by   *)
(* category, the sharing of a session to Discord, the creation of pow      *)
(* sessions and the users' settings.                                       *)
(*                                                                         *)
(* Every HTTP request is a process that takes the steps its handler takes  *)
(* against the database; the steps of different requests interleave.  A    *)
(* stored procedure runs in one READ COMMITTED transaction: its writes     *)
(* stay private (v_after, pc) until the step that commits them, a raised   *)
(* exception discards them.                                                *)
(***************************************************************************)
EXTENDS Integers, Sequences, FiniteSets, TLC

\* ------------------------------------------------------------------ bounds
MaxAmount == 2       \* largest amount of a request body
MaxLogs == 4         \* accumulated_sats_logs rows (plus requests in flight)

\* the largest value of the database's INTEGER columns and variables, scaled down
INT_MAX == 3

\* SQL NULL, an absent optional field of a request body
NULL == -1

\* the requests that may be in flight together; the study_sessions rows
Procs == {1, 2}
Sessions == {1}

\* the users table (the users router is not part of this model): id, discord_id
users ==
  { [id |-> 1, discord_id |-> <<"1">>],
    [id |-> 2, discord_id |-> <<"1", "2">>] }

UserIds == { u.id : u \in users }

\* discord ids a request may carry; <<"2">> has no users row
DiscordIds == { <<"1">>, <<"1", "2">>, <<"2">> }

\* supabase.from('users').select('id').eq('discord_id', d).single()
LookupUser(discord_id) ==
  IF \E u \in users : u.discord_id = discord_id
  THEN (CHOOSE u \in users : u.discord_id = discord_id).id
  ELSE NULL

VARIABLES
  user_accumulated_sats,   \* committed rows: user_id -> accumulated_sats
  accumulated_sats_logs,   \* committed rows: user_id -> that user's rows, in insertion order
  rowLock,                 \* user_id -> the transaction holding the row's lock, 0 = none
  donations,               \* rows in insertion order; a row's id is its index
  group_meetups,           \* rows in insertion order; a row's id is its index
  meetup_participants,     \* <<meetup_id, user_id>> -> row
  ORGANIZER_DISCORD_IDS,   \* the environment variable, a string (sequence of characters)
  now,                     \* the clock, Math.floor(Date.now() / 1000)
  participants_created,    \* meetup_participants rows ever inserted (the next row's id)
  study_sessions,          \* rows in insertion order
  pow_sessions,            \* session id -> [discord_message_id, status]
  discord_posts,           \* rows in insertion order
  discord_messages,        \* messages posted to the Discord channel; their ids are 1..n
  blink_calls,             \* requests made to the Lightning wallet (Blink) API
  user_settings,           \* users.donation_scope: user_id -> 'session' | 'total'
  router,                  \* the router, and the group of its routes, that serves the requests
  req,                     \* per request: handler position, body, locals, response
  hist                     \* what the claims need of the past (per request, per donation)

ledgerVars == <<user_accumulated_sats, accumulated_sats_logs, rowLock>>
donationVars == <<donations>>
meetupVars == <<group_meetups, meetup_participants, ORGANIZER_DISCORD_IDS>>
extVars ==
  <<study_sessions, pow_sessions, discord_posts, discord_messages, blink_calls,
    user_settings, router>>
otherVars == <<now, participants_created, extVars>>

vars ==
  <<user_accumulated_sats, accumulated_sats_logs, rowLock, donations, group_meetups,
    meetup_participants, ORGANIZER_DISCORD_IDS, now, participants_created,
    study_sessions, pow_sessions, discord_posts, discord_messages, blink_calls,
    user_settings, router, req, hist>>

\* no session, no Discord post, no call made yet; r is the router being served
NothingShared(r) ==
  /\ study_sessions = << >>
  /\ pow_sessions = << >>
  /\ discord_posts = << >>
  /\ discord_messages = 0
  /\ blink_calls = 0
  /\ user_settings = [u \in UserIds |-> "session"]
  /\ router = r

\* ------------------------------------------------------- requests, responses
InFlight(p) == req[p].pc \notin {"idle", "done"}

\* SELECT COUNT(*) FROM accumulated_sats_logs WHERE user_id IN S
RECURSIVE LogCount(_)
LogCount(S) ==
  IF S = {} THEN 0
  ELSE LET u == CHOOSE x \in S : TRUE
       IN Len(accumulated_sats_logs[u]) + LogCount(S \ {u})

\* the model's bound on the log table: a request starts only while a row is left for it
CanStart(p) ==
  /\ req[p].pc \in {"idle", "done"}
  /\ LogCount(UserIds) + Cardinality({ q \in Procs : InFlight(q) }) < MaxLogs

\* ================================================================ the ledger
LedgerIdle ==
  [pc |-> "idle", route |-> "none", user_id |-> NULL, amount |-> 0,
   session_id |-> NULL, expected_balance |-> NULL,
   v_before |-> NULL, v_after |-> NULL, status |-> 0, code |-> "none"]

\* c.json({..., code}, status): the handler has answered; its locals are gone
Respond(r, status, code) ==
  [LedgerIdle EXCEPT !.pc = "done", !.route = r.route, !.status = status, !.code = code]

\* history of a request, for the claims: a deduct with its expected_balance
\* committed while it was in flight (peer), an add of its user committed after
\* that (credited), its deduct read a positive balance below its amount (short)
NoHist == [peer |-> FALSE, credited |-> FALSE, short |-> FALSE]

HasRow(u) == u \in DOMAIN user_accumulated_sats

\* a SELECT without FOR UPDATE: no transaction waits for another
RowLockIgnored(u, p) == TRUE

\* SELECT ... FOR UPDATE waits while another transaction holds the row's lock
RowLockFree(u, p) == rowLock[u] \in {0, p}

Release(u, p) ==
  IF u \in DOMAIN rowLock /\ rowLock[u] = p THEN [rowLock EXCEPT ![u] = 0] ELSE rowLock

\* INSERT / UPDATE user_accumulated_sats at commit
Upsert(u, v) ==
  [x \in DOMAIN user_accumulated_sats \cup {u} |->
     IF x = u THEN v ELSE user_accumulated_sats[x]]

\* CHECK (accumulated_sats >= 0)
CheckConstraint(v) == v >= 0

\* the log table without its partial unique index
NoSessionIndex(u, s) == FALSE

\* idx_accumulated_sats_logs_session_unique: (user_id, session_id)
\* WHERE session_id IS NOT NULL AND action = 'add'
DuplicateSession(u, s) ==
  /\ s # NULL
  /\ \E i \in 1..Len(accumulated_sats_logs[u]) :
        /\ accumulated_sats_logs[u][i].session_id = s
        /\ accumulated_sats_logs[u][i].action = "add"

AddLogRow(u, v_before, v_after, p_amount, p_session_id) ==
  [user_id |-> u, amount_before |-> v_before, amount_after |-> v_after,
   change_amount |-> p_amount, action |-> "add", session_id |-> p_session_id]

\* the deduct log written with the amount itself, not its negation
DeductLogRowUnsigned(u, v_before, v_after, p_amount) ==
  [user_id |-> u, amount_before |-> v_before, amount_after |-> v_after,
   change_amount |-> p_amount, action |-> "deduct", session_id |-> NULL]

DeductLogRow(u, v_before, v_after, p_amount) ==
  [user_id |-> u, amount_before |-> v_before, amount_after |-> v_after,
   change_amount |-> 0 - p_amount, action |-> "deduct", session_id |-> NULL]

\* the balance check reduced to its IS NULL half
InsufficientOnlyWhenNoRow(v_before, p_amount) == v_before = NULL

\* IF v_before IS NULL OR v_before < p_amount THEN RAISE 'Insufficient accumulated sats...'
InsufficientBalance(v_before, p_amount) == v_before = NULL \/ v_before < p_amount

\* deduct_accumulated_sats without its optimistic check (the version of migration 002)
NoOptimisticCheck(v_before, p_expected_balance) == FALSE

\* IF p_expected_balance IS NOT NULL AND v_before != p_expected_balance THEN RAISE 'Balance mismatch...'
BalanceMismatch(v_before, p_expected_balance) ==
  p_expected_balance # NULL /\ v_before # p_expected_balance

\* POST /add, if (error): unique violation -> 409 DUPLICATE_SESSION, else 500
AddErrorResponse(err) ==
  IF err = "unique_violation" THEN <<409, "DUPLICATE_SESSION">> ELSE <<500, err>>

\* POST /deduct answering every rpc error but the insufficient balance with 500
DeductErrorResponseNoMismatch(err) ==
  IF err = "Insufficient accumulated sats" THEN <<400, "INSUFFICIENT_BALANCE">>
  ELSE <<500, err>>

\* POST /deduct, if (error): matched on the exception's message
DeductErrorResponse(err) ==
  IF err = "Insufficient accumulated sats" THEN <<400, "INSUFFICIENT_BALANCE">>
  ELSE IF err = "Balance mismatch" THEN <<409, "BALANCE_MISMATCH">>
  ELSE <<500, err>>

\* RAISE EXCEPTION that would keep the transaction's UPDATE or INSERT of
\* user_accumulated_sats instead of rolling it back
RaiseWithoutRollback(p, resp) ==
  /\ req' = [req EXCEPT ![p] = Respond(@, resp[1], resp[2])]
  /\ rowLock' = Release(req[p].user_id, p)
  /\ hist' = [hist EXCEPT ![p].short =
               /\ req[p].route = "deduct"
               /\ HasRow(req[p].user_id)
               /\ user_accumulated_sats[req[p].user_id] >= 1
               /\ user_accumulated_sats[req[p].user_id] < req[p].amount]
  /\ user_accumulated_sats' =
       IF req[p].v_after # NULL THEN Upsert(req[p].user_id, req[p].v_after)
       ELSE user_accumulated_sats
  /\ UNCHANGED <<accumulated_sats_logs, donationVars, meetupVars, otherVars>>

\* an exception leaves the stored procedure: the transaction rolls back, the
\* route turns the error into its answer
Raise(p, resp) ==
  /\ req' = [req EXCEPT ![p] = Respond(@, resp[1], resp[2])]
  /\ rowLock' = Release(req[p].user_id, p)
  /\ hist' = [hist EXCEPT ![p].short =
               /\ req[p].route = "deduct"
               /\ HasRow(req[p].user_id)
               /\ user_accumulated_sats[req[p].user_id] >= 1
               /\ user_accumulated_sats[req[p].user_id] < req[p].amount]
  /\ UNCHANGED <<user_accumulated_sats, accumulated_sats_logs, donationVars, meetupVars, otherVars>>

\* POST /api/accumulated-sats/add: addSchema.parse, user lookup, then the rpc
PostAdd(p, discord_id, amount, session_id) ==
  /\ CanStart(p)
  /\ LET body == [LedgerIdle EXCEPT !.route = "add", !.amount = amount,
                                    !.session_id = session_id,
                                    !.user_id = LookupUser(discord_id)]
     IN req' = [req EXCEPT ![p] =
                  IF ~(amount > 0) THEN Respond(body, 400, "INVALID_BODY")
                  ELSE IF body.user_id = NULL THEN Respond(body, 404, "USER_NOT_FOUND")
                  ELSE [body EXCEPT !.pc = "select"]]
  /\ hist' = [hist EXCEPT ![p] = NoHist]
  /\ UNCHANGED <<ledgerVars, donationVars, meetupVars, otherVars>>

\* add_accumulated_sats: IF p_amount <= 0; SELECT ... INTO v_before ... FOR UPDATE
AddSelect(p) ==
  /\ req[p].pc = "select" /\ req[p].route = "add"
  /\ LET u == req[p].user_id IN
     IF req[p].amount <= 0
     THEN Raise(p, AddErrorResponse("Amount must be positive"))
     ELSE IF HasRow(u)
     THEN /\ RowLockFree(u, p)
          /\ rowLock' = [rowLock EXCEPT ![u] = p]
          /\ req' = [req EXCEPT ![p].pc = "update",
                                ![p].v_before = user_accumulated_sats[u]]
          /\ UNCHANGED <<user_accumulated_sats, accumulated_sats_logs, hist, donationVars, meetupVars, otherVars>>
     ELSE /\ req' = [req EXCEPT ![p].pc = "update", ![p].v_before = NULL]
          /\ UNCHANGED <<ledgerVars, hist, donationVars, meetupVars, otherVars>>

\* add_accumulated_sats: IF v_before IS NULL THEN INSERT ... ELSE UPDATE ...
AddUpdate(p) ==
  /\ req[p].pc = "update" /\ req[p].route = "add"
  /\ LET u == req[p].user_id
         r == req[p]
     IN IF r.v_before = NULL
        THEN \* first accumulation: INSERT INTO user_accumulated_sats (primary key user_id)
             IF HasRow(u)
             THEN Raise(p, AddErrorResponse("unique_violation"))
             ELSE /\ RowLockFree(u, p)  \* waits for a concurrent uncommitted insert
                  /\ rowLock' = [rowLock EXCEPT ![u] = p]
                  /\ req' = [req EXCEPT ![p].pc = "log", ![p].v_before = 0,
                                        ![p].v_after = r.amount]
                  /\ UNCHANGED <<user_accumulated_sats, accumulated_sats_logs, hist, donationVars, meetupVars, otherVars>>
        ELSE IF r.v_before + r.amount > INT_MAX
        THEN Raise(p, AddErrorResponse("integer out of range"))
        ELSE IF ~CheckConstraint(r.v_before + r.amount)
        THEN Raise(p, AddErrorResponse("check_violation"))
        ELSE /\ req' = [req EXCEPT ![p].pc = "log", ![p].v_after = r.v_before + r.amount]
             /\ UNCHANGED <<ledgerVars, hist, donationVars, meetupVars, otherVars>>

\* add_accumulated_sats: INSERT INTO accumulated_sats_logs; RETURN QUERY; commit
AddInsertLog(p) ==
  /\ req[p].pc = "log" /\ req[p].route = "add"
  /\ LET u == req[p].user_id
         r == req[p]
     IN IF DuplicateSession(u, r.session_id)
        THEN Raise(p, AddErrorResponse("unique_violation"))
        ELSE /\ user_accumulated_sats' = Upsert(u, r.v_after)
             /\ accumulated_sats_logs' =
                  [accumulated_sats_logs EXCEPT ![u] =
                     Append(@, AddLogRow(u, r.v_before, r.v_after, r.amount, r.session_id))]
             /\ rowLock' = Release(u, p)
             /\ req' = [req EXCEPT ![p] = Respond(@, 201, "success")]
             /\ hist' = [q \in Procs |->
                           IF q # p /\ InFlight(q) /\ req[q].user_id = u /\ hist[q].peer
                           THEN [hist[q] EXCEPT !.credited = TRUE]
                           ELSE hist[q]]
             /\ UNCHANGED <<donationVars, meetupVars, otherVars>>

\* POST /api/accumulated-sats/deduct: deductSchema.parse, user lookup, then the rpc
PostDeduct(p, discord_id, amount, expected_balance) ==
  /\ CanStart(p)
  /\ LET body == [LedgerIdle EXCEPT !.route = "deduct", !.amount = amount,
                                    !.expected_balance = expected_balance,
                                    !.user_id = LookupUser(discord_id)]
     IN req' = [req EXCEPT ![p] =
                  IF ~(amount > 0) THEN Respond(body, 400, "INVALID_BODY")
                  ELSE IF body.user_id = NULL THEN Respond(body, 404, "USER_NOT_FOUND")
                  ELSE [body EXCEPT !.pc = "select"]]
  /\ hist' = [hist EXCEPT ![p] = NoHist]
  /\ UNCHANGED <<ledgerVars, donationVars, meetupVars, otherVars>>

\* deduct_accumulated_sats: IF p_amount <= 0; SELECT ... FOR UPDATE; the two checks;
\* v_after := v_before - p_amount; UPDATE user_accumulated_sats (private until commit)
DeductSelect(p) ==
  /\ req[p].pc = "select" /\ req[p].route = "deduct"
  /\ LET u == req[p].user_id
         r == req[p]
         v_before == IF HasRow(u) THEN user_accumulated_sats[u] ELSE NULL
     IN /\ HasRow(u) => RowLockFree(u, p)
        /\ IF r.amount <= 0
           THEN Raise(p, DeductErrorResponse("Amount must be positive"))
           ELSE IF InsufficientBalance(v_before, r.amount)
           THEN Raise(p, DeductErrorResponse("Insufficient accumulated sats"))
           ELSE IF BalanceMismatch(v_before, r.expected_balance)
           THEN Raise(p, DeductErrorResponse("Balance mismatch"))
           ELSE IF ~CheckConstraint(v_before - r.amount)
           THEN Raise(p, DeductErrorResponse("check_violation"))
           ELSE /\ rowLock' = [rowLock EXCEPT ![u] = p]
                /\ req' = [req EXCEPT ![p].pc = "log", ![p].v_before = v_before,
                                      ![p].v_after = v_before - r.amount]
                /\ UNCHANGED <<user_accumulated_sats, accumulated_sats_logs, hist, donationVars, meetupVars, otherVars>>

\* deduct_accumulated_sats: INSERT INTO accumulated_sats_logs; RETURN QUERY; commit
DeductInsertLog(p) ==
  /\ req[p].pc = "log" /\ req[p].route = "deduct"
  /\ LET u == req[p].user_id
         r == req[p]
     IN /\ user_accumulated_sats' = Upsert(u, r.v_after)
        /\ accumulated_sats_logs' =
             [accumulated_sats_logs EXCEPT ![u] =
                Append(@, DeductLogRow(u, r.v_before, r.v_after, r.amount))]
        /\ rowLock' = Release(u, p)
        /\ req' = [req EXCEPT ![p] = Respond(@, 200, "success")]
        /\ hist' = [q \in Procs |->
                      IF /\ q # p /\ InFlight(q) /\ req[q].route = "deduct"
                         /\ req[q].user_id = u
                         /\ req[q].expected_balance # NULL
                         /\ req[q].expected_balance = r.expected_balance
                      THEN [hist[q] EXCEPT !.peer = TRUE, !.credited = FALSE]
                      ELSE hist[q]]
        /\ UNCHANGED <<donationVars, meetupVars, otherVars>>

\* validate_accumulated_sats(): main table against SUM(change_amount) of the logs
RECURSIVE SumChange(_, _)
SumChange(u, n) ==
  IF n = 0 THEN 0
  ELSE SumChange(u, n - 1) + accumulated_sats_logs[u][n].change_amount

validate_accumulated_sats ==
  { [user_id |-> u,
     main_table_sats |-> user_accumulated_sats[u],
     calculated_from_logs |-> SumChange(u, Len(accumulated_sats_logs[u])),
     is_valid |-> user_accumulated_sats[u] = SumChange(u, Len(accumulated_sats_logs[u]))]
    : u \in DOMAIN user_accumulated_sats }

\* the request bodies tried: every well-formed body of user 1, one body of user 2
\* (whose rows must stay untouched by the others), one that fails validation
\* (amount 0) and one of a discord id without users row
KnownDiscordIds == { u.discord_id : u \in users }

AddBodies ==
  [discord_id : {<<"1">>}, amount : 1..MaxAmount, session_id : Sessions \cup {NULL}]
    \cup { [discord_id |-> <<"1", "2">>, amount |-> 1, session_id |-> NULL], [discord_id |-> <<"1">>, amount |-> 0, session_id |-> NULL],
           [discord_id |-> <<"2">>, amount |-> 1, session_id |-> NULL] }

DeductBodies ==
  [discord_id : {<<"1">>}, amount : 1..MaxAmount,
   expected_balance : (0..INT_MAX) \cup {NULL}]
    \cup { [discord_id |-> <<"1", "2">>, amount |-> 1, expected_balance |-> NULL], [discord_id |-> <<"1">>, amount |-> 0, expected_balance |-> NULL],
           [discord_id |-> <<"2">>, amount |-> 1, expected_balance |-> NULL] }

LedgerInit ==
  /\ user_accumulated_sats = << >>
  /\ accumulated_sats_logs = [u \in UserIds |-> << >>]
  /\ rowLock = [u \in UserIds |-> 0]
  /\ now = 0
  /\ participants_created = 0
  /\ NothingShared("accumulated-sats")
  /\ req = [p \in Procs |-> LedgerIdle]
  /\ hist = [p \in Procs |-> NoHist]
  /\ donations = << >>
  /\ group_meetups = << >>
  /\ meetup_participants = << >>
  /\ ORGANIZER_DISCORD_IDS = << >>

LedgerNext ==
  \E p \in Procs :
    \/ \E b \in AddBodies : PostAdd(p, b.discord_id, b.amount, b.session_id)
    \/ AddSelect(p)
    \/ AddUpdate(p)
    \/ AddInsertLog(p)
    \/ \E b \in DeductBodies : PostDeduct(p, b.discord_id, b.amount, b.expected_balance)
    \/ DeductSelect(p)
    \/ DeductInsertLog(p)

SpecLedger == LedgerInit /\ [][LedgerNext]_vars

\* ============================================================== donations
MaxDonations == 1    \* donations rows
MaxMeetupDonations == 2   \* donations rows, for the rows complete-donation inserts

\* z.enum(['pending', 'paid', 'completed', 'failed', 'cancelled']), donations_status_check
DonationStatuses == {"pending", "paid", "completed", "failed", "cancelled"}

DonIdle ==
  [pc |-> "idle", route |-> "none", donationId |-> NULL, newStatus |-> "none",
   currentStatus |-> "none", set_paid_at |-> FALSE, transaction_id |-> NULL,
   set_discord_shared |-> "undefined", meetupId |-> NULL, user_id |-> NULL,
   participant_id |-> NULL,
   amount |-> 0, status |-> 0, code |-> "none"]

DonRespond(r, status, code) ==
  [DonIdle EXCEPT !.pc = "done", !.route = r.route, !.status = status, !.code = code]

\* the model's bound on the donations table
DonationsLeft ==
  Len(donations) +
  Cardinality({ q \in Procs : req[q].route = "complete-donation" /\ req[q].pc = "insert" })
    < MaxDonations

\* the model's bound on the donations table for the meet-ups' donations
MeetupDonationsLeft ==
  Len(donations) +
  Cardinality({ q \in Procs : req[q].route = "complete-donation" /\ req[q].pc = "insert" })
    < MaxMeetupDonations

\* the transition table with 'completed' reachable from 'pending' as well
validTransitionsSkipPaid(currentStatus) ==
  CASE currentStatus = "pending" -> {"paid", "completed", "failed", "cancelled"}
    [] currentStatus = "paid" -> {"completed", "failed", "cancelled"}
    [] currentStatus = "completed" -> {}
    [] currentStatus = "failed" -> {"pending"}
    [] currentStatus = "cancelled" -> {}
    [] OTHER -> {}

\* const validTransitions: Record<string, string[]>
validTransitions(currentStatus) ==
  CASE currentStatus = "pending" -> {"paid", "failed", "cancelled"}
    [] currentStatus = "paid" -> {"completed", "failed", "cancelled"}
    [] currentStatus = "completed" -> {}
    [] currentStatus = "failed" -> {"pending"}
    [] currentStatus = "cancelled" -> {}
    [] OTHER -> {}

\* POST /api/donations: createDonationSchema.parse, user lookup, insert
PostDonation(p, discord_id, amount, status) ==
  /\ req[p].pc \in {"idle", "done"}
  /\ DonationsLeft
  /\ LET body == [DonIdle EXCEPT !.route = "create"]
         user_id == LookupUser(discord_id)
     IN IF ~(amount > 0 /\ status \in DonationStatuses)
        THEN /\ req' = [req EXCEPT ![p] = DonRespond(body, 400, "INVALID_BODY")]
             /\ UNCHANGED <<donations, hist>>
        ELSE IF user_id = NULL
        THEN /\ req' = [req EXCEPT ![p] = DonRespond(body, 404, "USER_NOT_FOUND")]
             /\ UNCHANGED <<donations, hist>>
        ELSE /\ donations' =
                  Append(donations,
                         [user_id |-> user_id, amount |-> amount, status |-> status,
                          paid_at |-> (status = "paid"), transaction_id |-> NULL,
                          discord_shared |-> FALSE])
             /\ hist' = Append(hist, [created |-> status, wasPaid |-> (status = "paid"),
                                  meetup |-> NULL])
             /\ req' = [req EXCEPT ![p] = DonRespond(body, 201, "success")]
  /\ UNCHANGED <<ledgerVars, meetupVars, otherVars>>

\* PATCH /:donationId/status: updateStatusSchema.parse, the SELECT of the current
\* status, the transition check, the update data
PatchFetch(p, donationId, newStatus, transaction_id, discord_shared) ==
  /\ req[p].pc \in {"idle", "done"}
  /\ LET body == [DonIdle EXCEPT !.route = "patch", !.donationId = donationId,
                                 !.newStatus = newStatus]
     IN req' = [req EXCEPT ![p] =
          IF newStatus \notin DonationStatuses
          THEN DonRespond(body, 400, "INVALID_BODY")
          ELSE IF donationId \notin DOMAIN donations
          THEN DonRespond(body, 404, "DONATION_NOT_FOUND")
          ELSE LET currentStatus == donations[donationId].status IN
               IF newStatus \notin validTransitions(currentStatus)
               THEN DonRespond(body, 400, "INVALID_TRANSITION")
               ELSE [body EXCEPT
                       !.pc = "update",
                       !.currentStatus = currentStatus,
                       !.set_paid_at = (currentStatus = "pending" /\ newStatus = "paid"),
                       !.transaction_id =
                          IF currentStatus = "pending" /\ newStatus = "paid"
                          THEN transaction_id ELSE NULL,
                       !.set_discord_shared =
                          IF currentStatus = "paid" /\ newStatus = "completed"
                          THEN (IF discord_shared = "undefined" THEN "true" ELSE discord_shared)
                          ELSE "undefined"]]
  /\ UNCHANGED <<ledgerVars, donationVars, meetupVars, hist, otherVars>>

\* PATCH /:donationId/status: supabase.from('donations').update(updateData).eq('id', donationId)
PatchUpdate(p) ==
  /\ req[p].pc = "update" /\ req[p].route = "patch"
  /\ LET r == req[p]
         d == r.donationId
     IN /\ donations' = [donations EXCEPT ![d] =
              [@ EXCEPT !.status = r.newStatus,
                        !.paid_at = IF r.set_paid_at THEN TRUE ELSE @,
                        !.transaction_id = IF r.transaction_id # NULL THEN r.transaction_id ELSE @,
                        !.discord_shared =
                           IF r.set_discord_shared = "undefined" THEN @
                           ELSE r.set_discord_shared = "true"]]
        /\ hist' = [hist EXCEPT ![d].wasPaid = @ \/ r.newStatus = "paid"]
        /\ req' = [req EXCEPT ![p] = DonRespond(r, 200, "success")]
  /\ UNCHANGED <<ledgerVars, meetupVars, otherVars>>

\* POST /api/meetups/:id/complete-donation: completeDonationSchema.parse, user
\* lookup, the participant record and its checks, the meetup
CompleteDonationFetch(p, meetupId, discord_id, amount) ==
  /\ req[p].pc \in {"idle", "done"}
  /\ MeetupDonationsLeft
  /\ LET user_id == LookupUser(discord_id)
         body == [DonIdle EXCEPT !.route = "complete-donation", !.meetupId = meetupId,
                                 !.user_id = user_id, !.amount = amount]
     IN req' = [req EXCEPT ![p] =
          IF ~(amount > 0) THEN DonRespond(body, 400, "INVALID_BODY")
          ELSE IF user_id = NULL THEN DonRespond(body, 404, "USER_NOT_FOUND")
          ELSE IF <<meetupId, user_id>> \notin DOMAIN meetup_participants
          THEN DonRespond(body, 400, "Not a participant of this meetup")
          ELSE IF ~meetup_participants[<<meetupId, user_id>>].attended
          THEN DonRespond(body, 400, "Must check in before donating")
          ELSE IF meetup_participants[<<meetupId, user_id>>].donation_status = "completed"
          THEN DonRespond(body, 400, "Already donated")
          ELSE IF meetupId \notin DOMAIN group_meetups
          THEN DonRespond(body, 404, "Meetup not found")
          ELSE [body EXCEPT !.pc = "insert",
                            !.participant_id = meetup_participants[<<meetupId, user_id>>].id]]
  /\ UNCHANGED <<ledgerVars, donationVars, meetupVars, hist, otherVars>>

\* complete-donation: insert the donation record, status 'completed'
CompleteDonationInsert(p) ==
  /\ req[p].pc = "insert" /\ req[p].route = "complete-donation"
  /\ donations' =
       Append(donations,
              [user_id |-> req[p].user_id, amount |-> req[p].amount, status |-> "completed",
               paid_at |-> FALSE, transaction_id |-> NULL, discord_shared |-> FALSE])
  /\ hist' = Append(hist, [created |-> "completed", wasPaid |-> FALSE,
                            meetup |-> req[p].meetupId])
  /\ req' = [req EXCEPT ![p].pc = "update", ![p].donationId = Len(donations) + 1]
  /\ UNCHANGED <<ledgerVars, meetupVars, otherVars>>

\* complete-donation: update the participant record
CompleteDonationUpdate(p) ==
  /\ req[p].pc = "update" /\ req[p].route = "complete-donation"
  /\ LET r == req[p]
         k == <<r.meetupId, r.user_id>>
     IN /\ meetup_participants' =
             IF k \in DOMAIN meetup_participants /\ meetup_participants[k].id = r.participant_id
             THEN [meetup_participants EXCEPT ![k] =
                     [@ EXCEPT !.donation_status = "completed",
                               !.actual_donated_amount = r.amount,
                               !.donation_id = r.donationId]]
             ELSE meetup_participants
        /\ req' = [req EXCEPT ![p] = DonRespond(r, 200, "success")]
  /\ UNCHANGED <<ledgerVars, donationVars, group_meetups, ORGANIZER_DISCORD_IDS, hist, otherVars>>

\* the request bodies tried: every status for a donation of user 1, every status
\* for every donation id with and without the optional fields, and one body for
\* each way of failing validation or a lookup
CreateBodies ==
  [discord_id : {<<"1">>}, amount : {1}, status : DonationStatuses]
    \cup { [discord_id |-> <<"1">>, amount |-> 0, status |-> "pending"],
           [discord_id |-> <<"1">>, amount |-> 1, status |-> "bogus"],
           [discord_id |-> <<"2">>, amount |-> 1, status |-> "pending"] }

PatchBodies ==
  [donationId : 1..MaxDonations, status : DonationStatuses,
   transaction_id : {NULL}, discord_shared : {"undefined"}]
    \cup [donationId : {1}, status : {"paid", "completed"},
          transaction_id : {1}, discord_shared : {"false"}]
    \cup { [donationId |-> 1, status |-> "bogus", transaction_id |-> NULL,
            discord_shared |-> "undefined"],
           [donationId |-> MaxDonations + 1, status |-> "paid", transaction_id |-> NULL,
            discord_shared |-> "undefined"] }

CompleteBodies ==
  { [meetupId |-> 1, discord_id |-> <<"1", "2">>, amount |-> 1],
    [meetupId |-> 1, discord_id |-> <<"1", "2">>, amount |-> 0],
    [meetupId |-> 1, discord_id |-> <<"1">>, amount |-> 1],
    [meetupId |-> 2, discord_id |-> <<"1", "2">>, amount |-> 1],
    [meetupId |-> 1, discord_id |-> <<"2">>, amount |-> 1] }

\* one meetup of user 1; user 2 has joined it and may have checked in
DonationsInit ==
  /\ donations = << >>
  /\ hist = << >>
  /\ req = [p \in Procs |-> DonIdle]
  /\ group_meetups = << [organizer_id |-> 1, status |-> "scheduled"] >>
  /\ \E attended \in BOOLEAN :
       meetup_participants =
         [k \in { <<1, 2>> } |->
            [id |-> 1, attended |-> attended, donation_status |-> "pending",
             actual_donated_amount |-> 0, donation_id |-> NULL]]
  /\ ORGANIZER_DISCORD_IDS = << >>
  /\ user_accumulated_sats = << >>
  /\ accumulated_sats_logs = [u \in UserIds |-> << >>]
  /\ rowLock = [u \in UserIds |-> 0]
  /\ now = 0
  /\ participants_created = 1
  /\ NothingShared("donations")

DonationsNext ==
  \E p \in Procs :
    \/ \E b \in CreateBodies : PostDonation(p, b.discord_id, b.amount, b.status)
    \/ \E b \in PatchBodies :
         PatchFetch(p, b.donationId, b.status, b.transaction_id, b.discord_shared)
    \/ PatchUpdate(p)
    \/ \E b \in CompleteBodies : CompleteDonationFetch(p, b.meetupId, b.discord_id, b.amount)
    \/ CompleteDonationInsert(p)
    \/ CompleteDonationUpdate(p)

SpecDonations == DonationsInit /\ [][DonationsNext]_vars

\* ================================================================ meet-ups
MaxMeetups == 2      \* group_meetups rows
MaxEnvLen == 3       \* characters of ORGANIZER_DISCORD_IDS

\* String.prototype.split(','): the pieces between the commas, '' included
RECURSIVE SplitComma(_)
SplitComma(str) ==
  IF \A i \in 1..Len(str) : str[i] # ","
  THEN << str >>
  ELSE LET i == CHOOSE k \in 1..Len(str) :
                  str[k] = "," /\ \A j \in 1..(k - 1) : str[j] # ","
       IN << SubSeq(str, 1, i - 1) >> \o SplitComma(SubSeq(str, i + 1, Len(str)))

\* String.prototype.trim()
RECURSIVE Trim(_)
Trim(str) ==
  IF str = << >> THEN str
  ELSE IF Head(str) = " " THEN Trim(Tail(str))
  ELSE IF str[Len(str)] = " " THEN Trim(SubSeq(str, 1, Len(str) - 1))
  ELSE str

RECURSIVE MapTrim(_)
MapTrim(list) ==
  IF list = << >> THEN << >> ELSE << Trim(Head(list)) >> \o MapTrim(Tail(list))

NonEmpty(id) == Len(id) > 0

\* allowedIds.split(',').map(id => id.trim()).filter(id => id.length > 0)
IdList(allowedIds) == SelectSeq(MapTrim(SplitComma(allowedIds)), NonEmpty)

\* String.prototype.includes: id occurs in str as a substring
Includes(str, id) ==
  \E i \in 1..(Len(str) - Len(id) + 1) : SubSeq(str, i, i + Len(id) - 1) = id

\* the role looked up in the raw variable instead of the list of ids
hasOrganizerRoleSubstring(discordId, env) ==
  IF Len(IdList(env)) = 0 THEN TRUE ELSE Includes(env, discordId)

\* hasOrganizerRole(discordId, env); env.ORGANIZER_DISCORD_IDS || '' is env here
hasOrganizerRole(discordId, env) ==
  LET idList == IdList(env) IN
  IF Len(idList) = 0
  THEN TRUE
  ELSE \E i \in 1..Len(idList) : idList[i] = discordId

MeetupIdle ==
  [pc |-> "idle", route |-> "none", discord_id |-> << >>, status |-> 0, code |-> "none"]

MeetupRespond(r, status, code) ==
  [r EXCEPT !.pc = "done", !.status = status, !.code = code]

\* createMeetupSchema: title 1..200 characters, scheduled_at a datetime,
\* duration_minutes and target_donation_amount positive integers
createMeetupSchema(body) ==
  /\ Len(body.title) >= 1
  /\ body.scheduled_at = "2026-01-10T10:00:00Z"
  /\ body.duration_minutes > 0
  /\ body.target_donation_amount > 0

\* POST /api/meetups: parse, user lookup, role check, insert
PostMeetup(p, body) ==
  /\ req[p].pc \in {"idle", "done"}
  /\ Len(group_meetups) < MaxMeetups
  /\ LET r == [MeetupIdle EXCEPT !.route = "create-meetup", !.discord_id = body.discord_id]
         user_id == LookupUser(body.discord_id)
     IN IF ~createMeetupSchema(body)
        THEN /\ req' = [req EXCEPT ![p] = MeetupRespond(r, 400, "INVALID_BODY")]
             /\ UNCHANGED group_meetups
        ELSE IF user_id = NULL
        THEN /\ req' = [req EXCEPT ![p] = MeetupRespond(r, 404, "USER_NOT_FOUND")]
             /\ UNCHANGED group_meetups
        ELSE IF ~hasOrganizerRole(body.discord_id, ORGANIZER_DISCORD_IDS)
        THEN /\ req' = [req EXCEPT ![p] =
                         MeetupRespond(r, 403, "Only Organizers can create meet-ups")]
             /\ UNCHANGED group_meetups
        ELSE /\ group_meetups' =
                  Append(group_meetups,
                         [organizer_id |-> user_id, title |-> body.title,
                          duration_minutes |-> body.duration_minutes,
                          target_donation_amount |-> body.target_donation_amount,
                          status |-> "scheduled"])
             /\ req' = [req EXCEPT ![p] = MeetupRespond(r, 201, "success")]
  /\ UNCHANGED <<ledgerVars, donationVars, meetup_participants, ORGANIZER_DISCORD_IDS, hist, otherVars>>

\* the request bodies tried: a well-formed body for every discord id, and one
\* body for each field that fails validation
GoodMeetupBody(d) ==
  [discord_id |-> d, title |-> <<"t">>, scheduled_at |-> "2026-01-10T10:00:00Z",
   duration_minutes |-> 1, target_donation_amount |-> 1]

MeetupBodies ==
  { GoodMeetupBody(d) : d \in DiscordIds }
    \cup { [GoodMeetupBody(<<"1">>) EXCEPT !.title = << >>],
           [GoodMeetupBody(<<"1">>) EXCEPT !.scheduled_at = "tomorrow"],
           [GoodMeetupBody(<<"1">>) EXCEPT !.duration_minutes = 0],
           [GoodMeetupBody(<<"1">>) EXCEPT !.target_donation_amount = 0] }

\* the values of the environment variable: every string of at most MaxEnvLen
\* characters over digits, comma and blank (unset reads as '')
EnvChars == {"1", "2", ",", " "}

EnvStrings == UNION { [1..n -> EnvChars] : n \in 0..MaxEnvLen }

MeetupsInit ==
  /\ ORGANIZER_DISCORD_IDS \in EnvStrings
  /\ group_meetups = << >>
  /\ meetup_participants = << >>
  /\ req = [p \in Procs |-> MeetupIdle]
  /\ hist = << >>
  /\ donations = << >>
  /\ user_accumulated_sats = << >>
  /\ accumulated_sats_logs = [u \in UserIds |-> << >>]
  /\ rowLock = [u \in UserIds |-> 0]
  /\ now = 0
  /\ participants_created = 0
  /\ NothingShared("meetups")

MeetupsNext == \E p \in Procs : \E body \in MeetupBodies : PostMeetup(p, body)

SpecMeetups == MeetupsInit /\ [][MeetupsNext]_vars

\* ================================================================ QR codes
\* strings are sequences of one-character strings, as for ORGANIZER_DISCORD_IDS
QRLifetime == 3600

\* the instants (whole seconds) at which the clock is read
Times == {0, 1, 3601}

\* values of SUPABASE_ANON_KEY
Keys == {"k1", "k2"}

Str_meetup == <<"m", "e", "e", "t", "u", "p">>
Str_NaN == <<"N", "a", "N">>

DecDigits == <<"0", "1", "2", "3", "4", "5", "6", "7", "8", "9">>
HexDigits == DecDigits \o <<"a", "b", "c", "d", "e", "f">>

\* the value of a digit character in the given digits, -1 when it is none
DigitValue(c, digits) ==
  IF \E i \in 1..Len(digits) : digits[i] = c
  THEN (CHOOSE i \in 1..Len(digits) : digits[i] = c) - 1
  ELSE -1

\* a number in a template literal: `${timestamp}`
RECURSIVE IntToStr(_)
IntToStr(n) ==
  IF n < 0 THEN <<"-">> \o IntToStr(-n)
  ELSE IF n < 10 THEN << DecDigits[n + 1] >>
  ELSE IntToStr(n \div 10) \o << DecDigits[(n % 10) + 1] >>

NumToStr(num) == IF num.nan THEN Str_NaN ELSE IntToStr(num.value)

\* String.prototype.split(':')
RECURSIVE SplitOn(_, _)
SplitOn(str, sep) ==
  IF \A i \in 1..Len(str) : str[i] # sep
  THEN << str >>
  ELSE LET i == CHOOSE k \in 1..Len(str) :
                  str[k] = sep /\ \A j \in 1..(k - 1) : str[j] # sep
       IN << SubSeq(str, 1, i - 1) >> \o SplitOn(SubSeq(str, i + 1, Len(str)), sep)

RECURSIVE TrimStart(_)
TrimStart(str) ==
  IF str # << >> /\ Head(str) = " " THEN TrimStart(Tail(str)) ELSE str

\* the value of the longest prefix of str made of the given digits, read in
\* base Len(digits); acc is the value read so far, -1 while nothing is read
RECURSIVE ReadDigits(_, _, _)
ReadDigits(str, digits, acc) ==
  IF str = << >> \/ DigitValue(Head(str), digits) = -1
  THEN acc
  ELSE ReadDigits(Tail(str), digits,
                  (IF acc = -1 THEN 0 ELSE acc) * Len(digits) + DigitValue(Head(str), digits))

\* parseInt(str): leading blanks skipped, an optional sign, an optional 0x
\* prefix, then the longest run of digits; NaN when there is no digit
parseInt(str) ==
  LET s1 == TrimStart(str)
      neg == s1 # << >> /\ Head(s1) = "-"
      s2 == IF s1 # << >> /\ Head(s1) \in {"-", "+"} THEN Tail(s1) ELSE s1
      hex == Len(s2) >= 2 /\ s2[1] = "0" /\ s2[2] \in {"x", "X"}
      v == IF hex THEN ReadDigits(SubSeq(s2, 3, Len(s2)), HexDigits, -1)
           ELSE ReadDigits(s2, DecDigits, -1)
  IN IF v = -1 THEN [nan |-> TRUE, value |-> 0]
     ELSE [nan |-> FALSE, value |-> IF neg THEN -v ELSE v]

\* generateHMAC(message, secretKey).slice(0, 8): the first 8 hexadecimal
\* characters of HMAC-SHA256, taken as one symbol that is different for
\* different (message, key)
generateHMAC(message, secretKey) == << ToString(<<message, secretKey>>) >>

\* generateQRData(meetupId, secretKey) called when the clock reads t
generateQRData(meetupId, secretKey, t) ==
  LET timestamp == t
      message == meetupId \o <<":">> \o IntToStr(timestamp)
      checksum == generateHMAC(message, secretKey)
  IN [qrData |-> Str_meetup \o <<":">> \o meetupId \o <<":">> \o IntToStr(timestamp)
                   \o <<":">> \o checksum,
      expiresAt |-> (timestamp + QRLifetime) * 1000]

\* verification without the expiry test
verifyQRDataNoExpiry(qrData, secretKey, t) ==
  LET parts == SplitOn(qrData, ":") IN
  IF Len(parts) # 4 \/ parts[1] # Str_meetup
  THEN [valid |-> FALSE, meetupId |-> << >>, error |-> "Invalid QR format"]
  ELSE IF generateHMAC(parts[2] \o <<":">> \o NumToStr(parseInt(parts[3])), secretKey) # parts[4]
  THEN [valid |-> FALSE, meetupId |-> << >>, error |-> "Invalid QR checksum"]
  ELSE [valid |-> TRUE, meetupId |-> parts[2], error |-> "none"]

\* verifyQRData(qrData, secretKey) called when the clock reads t
verifyQRData(qrData, secretKey, t) ==
  LET parts == SplitOn(qrData, ":") IN
  IF Len(parts) # 4 \/ parts[1] # Str_meetup
  THEN [valid |-> FALSE, meetupId |-> << >>, error |-> "Invalid QR format"]
  ELSE LET meetupId == parts[2]
           timestamp == parseInt(parts[3])
           providedChecksum == parts[4]
       IN IF ~timestamp.nan /\ t - timestamp.value > QRLifetime
          THEN [valid |-> FALSE, meetupId |-> << >>, error |-> "QR code expired"]
          ELSE LET message == meetupId \o <<":">> \o NumToStr(timestamp)
                   expectedChecksum == generateHMAC(message, secretKey)
               IN IF expectedChecksum # providedChecksum
                  THEN [valid |-> FALSE, meetupId |-> << >>, error |-> "Invalid QR checksum"]
                  ELSE [valid |-> TRUE, meetupId |-> meetupId, error |-> "none"]

\* --- a QR code generated, altered on its way, and verified
AlterChars == {"0", "9", "x", " ", ":"}

\* one character of str replaced, inserted or deleted
Alterations(str) ==
  { [i \in 1..Len(str) |-> IF i = k THEN c ELSE str[i]] :
      k \in 1..Len(str), c \in AlterChars }
    \cup { SubSeq(str, 1, k) \o <<c>> \o SubSeq(str, k + 1, Len(str)) :
             k \in 0..Len(str), c \in AlterChars }
    \cup { SubSeq(str, 1, k - 1) \o SubSeq(str, k + 1, Len(str)) : k \in 1..Len(str) }

MeetupIdStrings == { <<"1">>, <<"2", "a">> }

QRStart == [pc |-> "start"]

QRGenerate ==
  /\ hist.pc = "start"
  /\ LET g == generateQRData(req.meetupId, req.secretKey, now)
     IN hist' = [pc |-> "generated", original |-> g.qrData, qrData |-> g.qrData,
                 generated_at |-> now, expiresAt |-> g.expiresAt]
  /\ UNCHANGED <<ledgerVars, donationVars, meetupVars, otherVars, req>>

QRAlter ==
  /\ hist.pc = "generated"
  /\ \E a \in Alterations(hist.qrData) \ {hist.qrData} :
       hist' = [hist EXCEPT !.pc = "altered", !.qrData = a]
  /\ UNCHANGED <<ledgerVars, donationVars, meetupVars, otherVars, req>>

QRTick ==
  /\ hist.pc \in {"generated", "altered"}
  /\ \E t \in Times : t > now /\ now' = t
  /\ UNCHANGED <<ledgerVars, donationVars, meetupVars, participants_created, extVars, req, hist>>

QRVerify ==
  /\ hist.pc \in {"generated", "altered"}
  /\ \E k \in Keys :
       hist' = [pc |-> "verified", original |-> hist.original, qrData |-> hist.qrData,
                generated_at |-> hist.generated_at, expiresAt |-> hist.expiresAt,
                secretKey |-> k, result |-> verifyQRData(hist.qrData, k, now)]
  /\ UNCHANGED <<ledgerVars, donationVars, meetupVars, otherVars, req>>

QRInit ==
  /\ now \in Times
  /\ req \in [meetupId : MeetupIdStrings, secretKey : Keys]
  /\ hist = QRStart
  /\ participants_created = 0
  /\ NothingShared("qr")
  /\ group_meetups = << >>
  /\ meetup_participants = << >>
  /\ ORGANIZER_DISCORD_IDS = << >>
  /\ donations = << >>
  /\ user_accumulated_sats = << >>
  /\ accumulated_sats_logs = [u \in UserIds |-> << >>]
  /\ rowLock = [u \in UserIds |-> 0]

QRNext == QRGenerate \/ QRAlter \/ QRTick \/ QRVerify

SpecQR == QRInit /\ [][QRNext]_vars

\* ====================================================== organizer and check-in
\* the deployment's SUPABASE_ANON_KEY, the secret of the QR checksum
SUPABASE_ANON_KEY == "k1"

AttIdle ==
  [pc |-> "idle", route |-> "none", meetupId |-> NULL, discord_id |-> << >>,
   qr_data |-> << >>, participant_id |-> NULL, expires_at |-> NULL,
   status |-> 0, code |-> "none"]

\* the response; of the request it keeps the route, the path's meetup id and
\* the discord_id
AttRespond(r, status, code) ==
  [AttIdle EXCEPT !.pc = "done", !.route = r.route, !.meetupId = r.meetupId,
                  !.discord_id = r.discord_id, !.status = status, !.code = code]

\* the organizer taken to be any user of the users table
isOrganizerAnyUser(meetupId, discordId) ==
  meetupId \in DOMAIN group_meetups /\ LookupUser(discordId) # NULL

\* isOrganizer(supabase, meetupId, discordId)
isOrganizer(meetupId, discordId) ==
  IF meetupId \notin DOMAIN group_meetups
  THEN FALSE
  ELSE \E u \in users :
         u.id = group_meetups[meetupId].organizer_id /\ u.discord_id = discordId

\* POST /api/meetups/:id/generate-qr
GenerateQR(p, meetupId, discord_id) ==
  /\ req[p].pc \in {"idle", "done"}
  /\ LET r == [AttIdle EXCEPT !.route = "generate-qr", !.meetupId = meetupId,
                              !.discord_id = discord_id]
         g == generateQRData(IntToStr(meetupId), SUPABASE_ANON_KEY, now)
     IN IF ~isOrganizer(meetupId, discord_id)
        THEN /\ req' = [req EXCEPT ![p] =
                         AttRespond(r, 403, "Only organizer can generate QR code")]
             /\ UNCHANGED group_meetups
        ELSE /\ group_meetups' = [group_meetups EXCEPT ![meetupId] =
                  [@ EXCEPT !.qr_code_data = g.qrData, !.qr_code_expires_at = g.expiresAt]]
             /\ req' = [req EXCEPT ![p] =
                         [AttRespond(r, 200, "success") EXCEPT
                            !.qr_data = g.qrData, !.expires_at = g.expiresAt]]
  /\ UNCHANGED <<ledgerVars, donationVars, meetup_participants, ORGANIZER_DISCORD_IDS,
                 hist, otherVars>>

MeetupStatuses == {"in_progress", "completed", "cancelled"}

\* POST /api/meetups/:id/update-status
UpdateStatus(p, meetupId, discord_id, status) ==
  /\ req[p].pc \in {"idle", "done"}
  /\ LET r == [AttIdle EXCEPT !.route = "update-status", !.meetupId = meetupId,
                              !.discord_id = discord_id]
     IN IF status \notin MeetupStatuses
        THEN /\ req' = [req EXCEPT ![p] = AttRespond(r, 400, "INVALID_BODY")]
             /\ UNCHANGED group_meetups
        ELSE IF ~isOrganizer(meetupId, discord_id)
        THEN /\ req' = [req EXCEPT ![p] =
                         AttRespond(r, 403, "Only organizer can update status")]
             /\ UNCHANGED group_meetups
        ELSE /\ group_meetups' = [group_meetups EXCEPT ![meetupId] =
                  [@ EXCEPT !.status = status,
                            !.completed_at = IF status = "completed" THEN now ELSE @]]
             /\ req' = [req EXCEPT ![p] = AttRespond(r, 200, "success")]
  /\ UNCHANGED <<ledgerVars, donationVars, meetup_participants, ORGANIZER_DISCORD_IDS,
                 hist, otherVars>>

\* the response of check-in
CheckInRespond(r, status, code) ==
  [AttIdle EXCEPT !.pc = "done", !.route = r.route, !.status = status, !.code = code]

\* POST /api/meetups/:id/check-in: the request arrives
CheckInReceive(p, meetupId, discord_id, qr_data) ==
  /\ req[p].pc \in {"idle", "done"}
  /\ req' = [req EXCEPT ![p] =
               [AttIdle EXCEPT !.pc = "received", !.route = "check-in",
                               !.meetupId = meetupId, !.discord_id = discord_id,
                               !.qr_data = qr_data]]
  /\ UNCHANGED <<ledgerVars, donationVars, meetupVars, hist, otherVars>>

\* check-in: user lookup, verifyQRData, the meetup of the QR, the participant
\* record and its attended flag
CheckInVerify(p) ==
  /\ req[p].pc = "received" /\ req[p].route = "check-in"
  /\ LET r == req[p]
         user_id == LookupUser(r.discord_id)
         verification == verifyQRData(r.qr_data, SUPABASE_ANON_KEY, now)
         k == <<r.meetupId, user_id>>
     IN req' = [req EXCEPT ![p] =
          IF user_id = NULL THEN CheckInRespond(r, 404, "User not found")
          ELSE IF ~verification.valid THEN CheckInRespond(r, 400, verification.error)
          ELSE IF verification.meetupId # IntToStr(r.meetupId)
          THEN CheckInRespond(r, 400, "QR code does not match this meetup")
          ELSE IF k \notin DOMAIN meetup_participants
          THEN CheckInRespond(r, 400, "Not a participant of this meetup")
          ELSE IF meetup_participants[k].attended
          THEN CheckInRespond(r, 400, "Already checked in")
          ELSE [r EXCEPT !.pc = "update", !.participant_id = meetup_participants[k].id]]
  /\ UNCHANGED <<ledgerVars, donationVars, meetupVars, hist, otherVars>>

\* check-in: update({attended: true, attended_at: now}).eq('id', participant.id)
CheckInUpdate(p) ==
  /\ req[p].pc = "update" /\ req[p].route = "check-in"
  /\ meetup_participants' =
       [k \in DOMAIN meetup_participants |->
          IF meetup_participants[k].id = req[p].participant_id
          THEN [meetup_participants[k] EXCEPT !.attended = TRUE, !.attended_at = now]
          ELSE meetup_participants[k]]
  /\ req' = [req EXCEPT ![p] = CheckInRespond(req[p], 200, "success")]
  /\ UNCHANGED <<ledgerVars, donationVars, group_meetups, ORGANIZER_DISCORD_IDS,
                 hist, otherVars>>

\* the clock advances
Tick ==
  /\ \E t \in Times : t > now /\ now' = t
  /\ UNCHANGED <<ledgerVars, donationVars, meetupVars, participants_created, extVars, req, hist>>

\* a qrData put together from its four fields
MakeQR(prefix, meetupId, timestampStr, checksum) ==
  prefix \o <<":">> \o meetupId \o <<":">> \o timestampStr \o <<":">> \o checksum

\* the QR codes presented for a meetup: for every instant the code
\* generate-qr makes, that code with its timestamp field rewritten, and the code
\* made with another key; a code with an unreadable timestamp, one with
\* another prefix and one with three fields
QRInputs(meetupId) ==
  LET m == IntToStr(meetupId)
      sum(t, key) == generateHMAC(m \o <<":">> \o t, key)
  IN UNION { { generateQRData(m, SUPABASE_ANON_KEY, t).qrData,
               MakeQR(Str_meetup, m, IntToStr(t) \o <<"x">>, sum(IntToStr(t), SUPABASE_ANON_KEY)),
               MakeQR(Str_meetup, m, IntToStr(t), sum(IntToStr(t), "k2")) } : t \in Times }
     \cup { MakeQR(Str_meetup, m, <<"a">>, sum(Str_NaN, SUPABASE_ANON_KEY)),
            MakeQR(<<"t">>, m, <<"0">>, sum(<<"0">>, SUPABASE_ANON_KEY)),
            Str_meetup \o <<":">> \o m \o <<":">> \o <<"0">> }

\* the request bodies tried: every QR input by the participant for meetup 1,
\* the genuine codes by a user who has not joined and by an unknown user, and
\* the codes of one meetup presented at the other
CheckInBodies ==
  [meetupId : {1}, discord_id : { <<"1", "2">> }, qr_data : QRInputs(1)]
    \cup [meetupId : {1}, discord_id : { <<"1">>, <<"2">> },
          qr_data : { generateQRData(<<"1">>, SUPABASE_ANON_KEY, t).qrData : t \in Times }]
    \cup [meetupId : {1, 2}, discord_id : { <<"1", "2">> },
          qr_data : { generateQRData(<<"2">>, SUPABASE_ANON_KEY, 0).qrData }]

OrganizerBodies ==
  [meetupId : {1, 2}, discord_id : DiscordIds, status : {"in_progress"}]
    \cup [meetupId : {1}, discord_id : { <<"1">>, <<"1", "2">> },
          status : MeetupStatuses \cup {"scheduled"}]

\* generate-qr by the organizer and by a participant
GenerateQRBodies == [meetupId : {1}, discord_id : { <<"1">>, <<"1", "2">> }]

\* one meetup of user 1, which user 2 has joined
CheckInStart(r) ==
  /\ group_meetups = << [organizer_id |-> 1, status |-> "scheduled", qr_code_data |-> << >>,
                         qr_code_expires_at |-> NULL, completed_at |-> NULL] >>
  /\ meetup_participants =
       [k \in { <<1, 2>> } |->
          [id |-> 1, attended |-> FALSE, attended_at |-> NULL, donation_status |-> "pending",
           actual_donated_amount |-> 0, donation_id |-> NULL]]
  /\ participants_created = 1
  /\ NothingShared(r)
  /\ now = 0
  /\ req = [p \in Procs |-> AttIdle]
  /\ hist = << >>
  /\ ORGANIZER_DISCORD_IDS = << >>
  /\ donations = << >>
  /\ user_accumulated_sats = << >>
  /\ accumulated_sats_logs = [u \in UserIds |-> << >>]
  /\ rowLock = [u \in UserIds |-> 0]

CheckInInit == CheckInStart("meetups/check-in")

OrganizerInit == CheckInStart("meetups/organizer")

CheckInNext ==
  \/ Tick
  \/ \E p \in Procs :
       \/ \E b \in GenerateQRBodies : GenerateQR(p, b.meetupId, b.discord_id)
       \/ \E b \in CheckInBodies : CheckInReceive(p, b.meetupId, b.discord_id, b.qr_data)
       \/ CheckInVerify(p)
       \/ CheckInUpdate(p)

SpecCheckIn == CheckInInit /\ [][CheckInNext]_vars

OrganizerNext ==
  \/ Tick
  \/ \E p \in Procs :
       \/ \E b \in OrganizerBodies : GenerateQR(p, b.meetupId, b.discord_id)
       \/ \E b \in OrganizerBodies : UpdateStatus(p, b.meetupId, b.discord_id, b.status)

SpecOrganizer == OrganizerInit /\ [][OrganizerNext]_vars

\* ================================================================ attendance
MaxJoins == 3        \* meetup_participants rows ever inserted

\* POST /api/meetups/:id/join
Join(p, meetupId, discord_id, pledged_amount) ==
  /\ req[p].pc \in {"idle", "done"}
  /\ participants_created < MaxJoins
  /\ LET r == [AttIdle EXCEPT !.route = "join"]
         user_id == LookupUser(discord_id)
         k == <<meetupId, user_id>>
         rejected(status, code) ==
           /\ req' = [req EXCEPT ![p] = CheckInRespond(r, status, code)]
           /\ UNCHANGED <<meetup_participants, participants_created>>
     IN IF ~(pledged_amount > 0) THEN rejected(400, "INVALID_BODY")
        ELSE IF user_id = NULL THEN rejected(404, "User not found")
        ELSE IF meetupId \notin DOMAIN group_meetups THEN rejected(404, "Meetup not found")
        ELSE IF group_meetups[meetupId].status \notin {"scheduled", "in_progress"}
        THEN rejected(400, "Cannot join this meetup")
        ELSE IF k \in DOMAIN meetup_participants
        THEN rejected(400, "Already joined this meetup")
        ELSE /\ meetup_participants' =
                  [j \in DOMAIN meetup_participants \cup {k} |->
                     IF j = k
                     THEN [id |-> participants_created + 1, attended |-> FALSE,
                           attended_at |-> NULL, donation_status |-> "pending",
                           actual_donated_amount |-> 0, donation_id |-> NULL]
                     ELSE meetup_participants[j]]
             /\ participants_created' = participants_created + 1
             /\ req' = [req EXCEPT ![p] = CheckInRespond(r, 200, "success")]
  /\ UNCHANGED <<ledgerVars, donationVars, group_meetups, ORGANIZER_DISCORD_IDS, hist, now, extVars>>

\* POST /api/meetups/:id/leave
Leave(p, meetupId, discord_id) ==
  /\ req[p].pc \in {"idle", "done"}
  /\ LET r == [AttIdle EXCEPT !.route = "leave"]
         user_id == LookupUser(discord_id)
     IN IF user_id = NULL
        THEN /\ req' = [req EXCEPT ![p] = CheckInRespond(r, 404, "User not found")]
             /\ UNCHANGED meetup_participants
        ELSE /\ meetup_participants' =
                  [j \in DOMAIN meetup_participants \ { <<meetupId, user_id>> } |->
                     meetup_participants[j]]
             /\ req' = [req EXCEPT ![p] = CheckInRespond(r, 200, "success")]
  /\ UNCHANGED <<ledgerVars, donationVars, group_meetups, ORGANIZER_DISCORD_IDS, hist,
                 otherVars>>

JoinBodies ==
  [meetupId : {1}, discord_id : { <<"1">>, <<"1", "2">> }, pledged_amount : {1}]
    \cup { [meetupId |-> 1, discord_id |-> <<"1">>, pledged_amount |-> 0],
           [meetupId |-> 1, discord_id |-> <<"2">>, pledged_amount |-> 1],
           [meetupId |-> 2, discord_id |-> <<"1">>, pledged_amount |-> 1],
           [meetupId |-> 3, discord_id |-> <<"1">>, pledged_amount |-> 1] }

LeaveBodies ==
  [meetupId : {1}, discord_id : { <<"1">>, <<"1", "2">>, <<"2">> }]

\* check-in with the code generate-qr made for meetup 1
AttendanceCheckInBodies ==
  [meetupId : {1}, discord_id : { <<"1">>, <<"1", "2">> },
   qr_data : { generateQRData(<<"1">>, SUPABASE_ANON_KEY, 0).qrData }]

\* meetup 1 is scheduled and has a QR code, meetup 2 is cancelled; nobody has
\* joined
AttendanceInit ==
  /\ group_meetups =
       << [organizer_id |-> 1, status |-> "scheduled",
           qr_code_data |-> generateQRData(<<"1">>, SUPABASE_ANON_KEY, 0).qrData,
           qr_code_expires_at |-> generateQRData(<<"1">>, SUPABASE_ANON_KEY, 0).expiresAt,
           completed_at |-> NULL],
          [organizer_id |-> 1, status |-> "cancelled", qr_code_data |-> << >>,
           qr_code_expires_at |-> NULL, completed_at |-> NULL] >>
  /\ meetup_participants = [k \in {} |-> NULL]
  /\ participants_created = 0
  /\ NothingShared("meetups/attendance")
  /\ now = 0
  /\ req = [p \in Procs |-> AttIdle]
  /\ hist = << >>
  /\ donations = << >>
  /\ ORGANIZER_DISCORD_IDS = << >>
  /\ user_accumulated_sats = << >>
  /\ accumulated_sats_logs = [u \in UserIds |-> << >>]
  /\ rowLock = [u \in UserIds |-> 0]

AttendanceNext ==
  \E p \in Procs :
    \/ \E b \in JoinBodies : Join(p, b.meetupId, b.discord_id, b.pledged_amount)
    \/ \E b \in LeaveBodies : Leave(p, b.meetupId, b.discord_id)
    \/ \E b \in AttendanceCheckInBodies :
         CheckInReceive(p, b.meetupId, b.discord_id, b.qr_data)
    \/ CheckInVerify(p)
    \/ CheckInUpdate(p)
    \/ \E b \in CompleteBodies : CompleteDonationFetch(p, b.meetupId, b.discord_id, b.amount)
    \/ CompleteDonationInsert(p)
    \/ CompleteDonationUpdate(p)

SpecAttendance == AttendanceInit /\ [][AttendanceNext]_vars

\* ================================================================== rankings
MaxSessions == 2     \* study_sessions rows

\* c.req.query(name) || fallback: an absent parameter and an empty one, both
\* written << >>, read as the fallback
QueryOr(value, fallback) == IF value = << >> THEN fallback ELSE value

\* session.duration_seconds ?? (session.duration_minutes ? session.duration_minutes * 60 : 0)
SessionSeconds(session) ==
  IF session.duration_seconds # NULL
  THEN session.duration_seconds
  ELSE IF session.duration_minutes # NULL /\ session.duration_minutes # 0
       THEN session.duration_minutes * 60
       ELSE 0

\* the position of discord_id's entry in userStats, 0 when it has none (Map.get)
StatsIndex(userStats, discord_id) ==
  IF \E i \in 1..Len(userStats) : userStats[i].discord_id = discord_id
  THEN CHOOSE i \in 1..Len(userStats) : userStats[i].discord_id = discord_id
  ELSE 0

\* data.forEach(...): userStats is the Map, its entries in insertion order;
\* rows are [users, value, created_at], users the joined users row: << >>
\* when there is none, else << discord_id >>
RECURSIVE Aggregate(_, _)
Aggregate(rows, userStats) ==
  IF rows = << >> THEN userStats
  ELSE LET row == Head(rows)
           user == row.users
           i == IF user = << >> THEN 0 ELSE StatsIndex(userStats, user[1])
       IN IF user = << >>
          THEN Aggregate(Tail(rows), userStats)
          ELSE IF i # 0
          THEN Aggregate(Tail(rows),
                 [userStats EXCEPT
                    ![i].total = @ + row.value,
                    ![i].count = @ + 1,
                    ![i].last_activity_at =
                       IF row.created_at > @ THEN row.created_at ELSE @])
          ELSE Aggregate(Tail(rows),
                 Append(userStats,
                        [discord_id |-> user[1], total |-> row.value, count |-> 1,
                         last_activity_at |-> row.created_at]))

\* entry put into a list sorted by decreasing total, behind the entries that
\* do not compare after it
RECURSIVE InsertByTotal(_, _)
InsertByTotal(entry, sorted) ==
  IF sorted = << >> THEN << entry >>
  ELSE IF Head(sorted).total >= entry.total
       THEN << Head(sorted) >> \o InsertByTotal(entry, Tail(sorted))
       ELSE << entry >> \o sorted

\* Array.prototype.sort((a, b) => b.total - a.total): a stable sort
RECURSIVE SortByTotal(_, _)
SortByTotal(list, sorted) ==
  IF list = << >> THEN sorted
  ELSE SortByTotal(Tail(list), InsertByTotal(Head(list), sorted))

\* Array.prototype.slice(0, end), end a parseInt result: NaN reads as 0, a
\* negative end counts from the end of the array
Slice0(list, end) ==
  LET e == IF end.nan THEN 0
           ELSE IF end.value < 0
                THEN (IF Len(list) + end.value < 0 THEN 0 ELSE Len(list) + end.value)
                ELSE (IF end.value > Len(list) THEN Len(list) ELSE end.value)
  IN SubSeq(list, 1, e)

\* Math.round(total_seconds / 60 * 10), the minutes in tenths
MinutesTenths(total_seconds) == (total_seconds + 3) \div 6

\* the rows the study_sessions query returns
SessionRows(category) ==
  LET selected == SelectSeq(study_sessions,
                            LAMBDA s : category = <<"a", "l", "l">> \/ s.donation_mode = category)
  IN [i \in 1..Len(selected) |->
        [users |-> selected[i].users, value |-> SessionSeconds(selected[i]),
         created_at |-> selected[i].created_at]]

\* the rows the donations query returns; the donations table is empty in
\* SpecRankings
DonationRows(category) ==
  LET selected == SelectSeq(donations, LAMBDA d : d.status = "completed")
  IN [i \in 1..Len(selected) |->
        [users |-> << (CHOOSE u \in users : u.id = selected[i].user_id).discord_id >>,
         value |-> selected[i].amount, created_at |-> i]]

\* .sort(...).slice(0, parseInt(limit)).map((user, index) => ({rank: index + 1, ...}))
TimeRankings(rows, limit) ==
  LET top == Slice0(SortByTotal(Aggregate(rows, << >>), << >>), parseInt(limit))
  IN [i \in 1..Len(top) |->
        [rank |-> i, discord_id |-> top[i].discord_id, total_seconds |-> top[i].total,
         total_minutes_tenths |-> MinutesTenths(top[i].total),
         session_count |-> top[i].count, last_activity_at |-> top[i].last_activity_at]]

DonationRankings(rows, limit) ==
  LET top == Slice0(SortByTotal(Aggregate(rows, << >>), << >>), parseInt(limit))
  IN [i \in 1..Len(top) |->
        [rank |-> i, discord_id |-> top[i].discord_id, total_donations |-> top[i].total,
         last_activity_at |-> top[i].last_activity_at]]

RankIdle == [pc |-> "idle"]

\* GET /api/rankings/by-category?type=&category=&limit=
GetByCategory(typeParam, categoryParam, limitParam) ==
  /\ req.pc = "idle"
  /\ LET type == QueryOr(typeParam, <<"t", "i", "m", "e">>)
         category == QueryOr(categoryParam, <<"a", "l", "l">>)
         limit == QueryOr(limitParam, <<"1", "0">>)
         answer(status, data) ==
           req' = [pc |-> "done", status |-> status, type |-> type, category |-> category,
                   limit |-> limit, data |-> data]
     IN IF type = <<"t", "i", "m", "e">>
        THEN answer(200, TimeRankings(SessionRows(category), limit))
        ELSE IF type = <<"d", "o", "n", "a", "t", "i", "o", "n">>
        THEN answer(200, DonationRankings(DonationRows(category), limit))
        ELSE answer(400, << >>)
  /\ UNCHANGED <<ledgerVars, donationVars, meetupVars, otherVars, hist>>

\* the rows of study_sessions tried: with and without a user, with each way
\* of recording the duration, in two categories
SessionRowsTried ==
  { [users |-> u, duration_seconds |-> du[1], duration_minutes |-> du[2],
     donation_mode |-> m, created_at |-> 1] :
      u \in { << <<"1">> >>, << <<"1", "2">> >>, << >> },
      du \in { <<NULL, NULL>>, <<NULL, 1>>, <<0, 1>>, <<90, NULL>>, <<30, 2>> },
      m \in { <<"p">>, <<"q">> } }

TypeParams == { << >>, <<"t", "i", "m", "e">>, <<"d", "o", "n", "a", "t", "i", "o", "n">>, <<"x">> }

CategoryParams == { << >>, <<"a", "l", "l">>, <<"p">> }

LimitParams == { << >>, <<"0">>, <<"1">>, <<"2">>, <<"-", "1">>, <<"x">> }

RankingsInit ==
  /\ \E n \in 0..MaxSessions : \E rows \in [1..n -> SessionRowsTried] :
       study_sessions = rows
  /\ pow_sessions = << >>
  /\ discord_posts = << >>
  /\ discord_messages = 0
  /\ blink_calls = 0
  /\ user_settings = [u \in UserIds |-> "session"]
  /\ router = "rankings"
  /\ req = RankIdle
  /\ hist = << >>
  /\ donations = << >>
  /\ group_meetups = << >>
  /\ meetup_participants = << >>
  /\ ORGANIZER_DISCORD_IDS = << >>
  /\ user_accumulated_sats = << >>
  /\ accumulated_sats_logs = [u \in UserIds |-> << >>]
  /\ rowLock = [u \in UserIds |-> 0]
  /\ now = 0
  /\ participants_created = 0

RankingsNext ==
  \E t \in TypeParams : \E c \in CategoryParams : \E l \in LimitParams :
    GetByCategory(t, c, l)

SpecRankings == RankingsInit /\ [][RankingsNext]_vars

\* ============================================================= discord posts
MaxShares == 2       \* messages posted to the Discord channel

\* an optional string of a request body is << >> when absent or null, else
\* << the string >>; the session ids that are well-formed uuids
Uuids == {"uuid-1", "uuid-2"}

IsUuid(s) == s \in Uuids

\* a value that is falsy in `value || null` and `if (value)`
Falsy(opt) == opt = << >> \/ opt = << "" >>

SessionExists(id) == \E i \in 1..Len(pow_sessions) : pow_sessions[i].id = id

\* the insert into discord_posts succeeds: message_id is UNIQUE, session_id is
\* a uuid column that references the sessions table (the table the migrations
\* call study_sessions and the routes pow_sessions)
PostInsertable(message_id, session_id) ==
  /\ \A i \in 1..Len(discord_posts) : discord_posts[i].message_id # message_id
  /\ session_id # << >> => IsUuid(session_id[1]) /\ SessionExists(session_id[1])

\* supabase.from('pow_sessions').update(...).eq('id', session_id): no row is
\* changed when session_id is no uuid (the statement fails) or names no session
UpdateSession(session_id, changes) ==
  [i \in 1..Len(pow_sessions) |->
     IF IsUuid(session_id) /\ pow_sessions[i].id = session_id
     THEN [f \in DOMAIN pow_sessions[i] |->
             IF f \in DOMAIN changes THEN changes[f] ELSE pow_sessions[i][f]]
     ELSE pow_sessions[i]]

ShareIdle ==
  [pc |-> "idle", route |-> "none", status |-> 0, code |-> "none",
   session_id |-> << >>, user_id |-> NULL, message_id |-> NULL]

ShareRespond(r, status, code) ==
  [r EXCEPT !.pc = "done", !.status = status, !.code = code]

\* shareToDiscordSchema: discord_id and photo_url strings, duration_seconds an
\* integer >= 0, session_id an optional, nullable string
shareToDiscordSchema(body) ==
  /\ body.photo_url # << >>
  /\ body.duration_seconds >= 0

\* POST /api/discord-posts/share, up to the request to Discord: parse, user
\* lookup, the balance query to the wallet API (its failure is ignored)
ShareReceive(p, body) ==
  /\ req[p].pc \in {"idle", "done"}
  /\ blink_calls < MaxShares
  /\ LET r == [ShareIdle EXCEPT !.route = "share", !.session_id = body.session_id]
         user_id == LookupUser(body.discord_id)
     IN IF ~shareToDiscordSchema(body)
        THEN /\ req' = [req EXCEPT ![p] = ShareRespond(r, 400, "Invalid request data")]
             /\ UNCHANGED blink_calls
        ELSE IF user_id = NULL
        THEN /\ req' = [req EXCEPT ![p] = ShareRespond(r, 404, "User not found")]
             /\ UNCHANGED blink_calls
        ELSE /\ req' = [req EXCEPT ![p] = [r EXCEPT !.pc = "send", !.user_id = user_id]]
             /\ blink_calls' = blink_calls + 1
  /\ UNCHANGED <<ledgerVars, donationVars, meetupVars, now, participants_created,
                 study_sessions, pow_sessions, discord_posts, discord_messages, user_settings, router, hist>>

\* the request to Discord: the message is posted and its id returned, or not
ShareSend(p) ==
  /\ req[p].pc = "send"
  /\ \/ /\ discord_messages < MaxShares
        /\ discord_messages' = discord_messages + 1
        /\ req' = [req EXCEPT ![p].pc = "insert", ![p].message_id = discord_messages + 1]
     \/ /\ req' = [req EXCEPT ![p] =
                     ShareRespond(req[p], 500, "Failed to send message to Discord")]
        /\ UNCHANGED discord_messages
  /\ UNCHANGED <<ledgerVars, donationVars, meetupVars, now, participants_created,
                 study_sessions, pow_sessions, discord_posts, blink_calls, user_settings, router, hist>>

\* the insert into discord_posts; postError is logged and nothing else
ShareInsert(p) ==
  /\ req[p].pc = "insert"
  /\ LET session_id == IF Falsy(req[p].session_id) THEN << >> ELSE req[p].session_id
     IN discord_posts' =
          IF PostInsertable(req[p].message_id, session_id)
          THEN Append(discord_posts,
                      [message_id |-> req[p].message_id, user_id |-> req[p].user_id,
                       session_id |-> session_id])
          ELSE discord_posts
  /\ req' = [req EXCEPT ![p].pc = "update"]
  /\ UNCHANGED <<ledgerVars, donationVars, meetupVars, now, participants_created,
                 study_sessions, pow_sessions, discord_messages, blink_calls, user_settings, router, hist>>

\* the update of pow_sessions, its result not looked at, and the answer
ShareUpdate(p) ==
  /\ req[p].pc = "update"
  /\ pow_sessions' =
       IF Falsy(req[p].session_id) THEN pow_sessions
       ELSE UpdateSession(req[p].session_id[1],
                          [discord_message_id |-> req[p].message_id,
                           status |-> "completed"])
  /\ req' = [req EXCEPT ![p] = ShareRespond(req[p], 200, "success")]
  /\ UNCHANGED <<ledgerVars, donationVars, meetupVars, now, participants_created,
                 study_sessions, discord_posts, discord_messages, blink_calls, user_settings, router, hist>>

\* createDiscordPostSchema: message_id, channel_id and discord_id strings
createDiscordPostSchema(body) == body.message_id # NULL

\* POST /api/discord-posts: parse, user lookup, insert, update of pow_sessions
PostDiscordPost(p, body) ==
  /\ req[p].pc \in {"idle", "done"}
  /\ LET r == [ShareIdle EXCEPT !.route = "create-post", !.session_id = body.session_id,
                                !.message_id = body.message_id]
         user_id == LookupUser(body.discord_id)
         answer(status, code) ==
           /\ req' = [req EXCEPT ![p] = ShareRespond(r, status, code)]
           /\ UNCHANGED <<discord_posts, pow_sessions>>
     IN IF ~createDiscordPostSchema(body) THEN answer(400, "Invalid request data")
        ELSE IF user_id = NULL THEN answer(404, "User not found")
        ELSE IF ~PostInsertable(body.message_id, body.session_id)
        THEN answer(500, "insert failed")
        ELSE /\ discord_posts' =
                  Append(discord_posts,
                         [message_id |-> body.message_id, user_id |-> user_id,
                          session_id |-> body.session_id])
             /\ pow_sessions' =
                  IF Falsy(body.session_id) THEN pow_sessions
                  ELSE UpdateSession(body.session_id[1],
                         [discord_message_id |-> body.message_id])
             /\ req' = [req EXCEPT ![p] = ShareRespond(r, 201, "success")]
  /\ UNCHANGED <<ledgerVars, donationVars, meetupVars, now, participants_created,
                 study_sessions, discord_messages, blink_calls, user_settings, router, hist>>

\* DELETE /api/discord-posts/:messageId
DeleteDiscordPost(p, messageId) ==
  /\ req[p].pc \in {"idle", "done"}
  /\ discord_posts' = SelectSeq(discord_posts, LAMBDA row : row.message_id # messageId)
  /\ req' = [req EXCEPT ![p] =
               ShareRespond([ShareIdle EXCEPT !.route = "delete-post",
                                              !.message_id = messageId], 200, "success")]
  /\ UNCHANGED <<ledgerVars, donationVars, meetupVars, now, participants_created,
                 study_sessions, pow_sessions, discord_messages, blink_calls, user_settings, router, hist>>

\* the session ids tried: none, a session, a uuid of no session, no uuid
SessionIdsTried == { << >>, << "uuid-1" >>, << "uuid-2" >>, << "abc" >> }

ShareBodies ==
  [discord_id : {<<"1">>, <<"2">>}, session_id : SessionIdsTried,
   photo_url : {<< "p" >>}, duration_seconds : {60}]
    \cup { [discord_id |-> <<"1">>, session_id |-> << >>, photo_url |-> << >>,
            duration_seconds |-> 60] }

PostBodies ==
  [discord_id : {<<"1">>}, session_id : {<< >>, << "uuid-1" >>}, message_id : {1}]
    \cup { [discord_id |-> <<"2">>, session_id |-> << >>, message_id |-> 1],
           [discord_id |-> <<"1">>, session_id |-> << >>, message_id |-> NULL] }

ShareInit ==
  /\ pow_sessions = << [id |-> "uuid-1", user_id |-> 1, discord_message_id |-> NULL,
                        status |-> "in_progress"] >>
  /\ discord_posts = << >>
  /\ discord_messages = 0
  /\ blink_calls = 0
  /\ study_sessions = << >>
  /\ user_settings = [u \in UserIds |-> "session"]
  /\ router = "discord-posts"
  /\ req = [p \in Procs |-> ShareIdle]
  /\ hist = << >>
  /\ donations = << >>
  /\ group_meetups = << >>
  /\ meetup_participants = << >>
  /\ ORGANIZER_DISCORD_IDS = << >>
  /\ user_accumulated_sats = << >>
  /\ accumulated_sats_logs = [u \in UserIds |-> << >>]
  /\ rowLock = [u \in UserIds |-> 0]
  /\ now = 0
  /\ participants_created = 0

ShareNext ==
  \E p \in Procs :
    \/ \E body \in ShareBodies : ShareReceive(p, body)
    \/ ShareSend(p)
    \/ ShareInsert(p)
    \/ ShareUpdate(p)
    \/ \E body \in PostBodies : PostDiscordPost(p, body)
    \/ DeleteDiscordPost(p, 1)

SpecShare == ShareInit /\ [][ShareNext]_vars

\* ======================================================== sessions and users
MaxPowSessions == 2  \* pow_sessions rows

\* createPowSessionSchema: discord_id, pow_fields, pow_plan_text strings,
\* start_time and end_time datetimes, the durations integers >= 0
createPowSessionSchema(body) ==
  /\ body.start_time = "2026-01-10T10:00:00Z"
  /\ body.duration_seconds >= 0

\* POST /api/pow-sessions: parse, user lookup, insert (the row's id is a fresh uuid)
PostPowSession(p, body) ==
  /\ req[p].pc \in {"idle", "done"}
  /\ Len(pow_sessions) < MaxPowSessions
  /\ LET r == [ShareIdle EXCEPT !.route = "create-session"]
         user_id == LookupUser(body.discord_id)
         id == CHOOSE u \in Uuids : ~SessionExists(u)
     IN IF ~createPowSessionSchema(body)
        THEN /\ req' = [req EXCEPT ![p] = ShareRespond(r, 400, "Invalid request body")]
             /\ UNCHANGED pow_sessions
        ELSE IF user_id = NULL
        THEN /\ req' = [req EXCEPT ![p] = ShareRespond(r, 404, "User not found")]
             /\ UNCHANGED pow_sessions
        ELSE /\ pow_sessions' =
                  Append(pow_sessions,
                         [id |-> id, user_id |-> user_id, discord_message_id |-> NULL,
                          status |-> "in_progress"])
             /\ req' = [req EXCEPT ![p] = ShareRespond(r, 201, "success")]
  /\ UNCHANGED <<ledgerVars, donationVars, meetupVars, now, participants_created,
                 study_sessions, discord_posts, discord_messages, blink_calls,
                 user_settings, router, hist>>

\* updateSettingsSchema: donation_scope one of 'session', 'total'
updateSettingsSchema(body) == body.donation_scope \in {"session", "total"}

\* PATCH /api/users/:discordId/settings: parse, user lookup, update
PatchSettings(p, discordId, body) ==
  /\ req[p].pc \in {"idle", "done"}
  /\ LET r == [ShareIdle EXCEPT !.route = "settings"]
         user_id == LookupUser(discordId)
     IN IF ~updateSettingsSchema(body)
        THEN /\ req' = [req EXCEPT ![p] = ShareRespond(r, 400, "Invalid request body")]
             /\ UNCHANGED user_settings
        ELSE IF user_id = NULL
        THEN /\ req' = [req EXCEPT ![p] = ShareRespond(r, 404, "User not found")]
             /\ UNCHANGED user_settings
        ELSE /\ user_settings' = [user_settings EXCEPT ![user_id] = body.donation_scope]
             /\ req' = [req EXCEPT ![p] = ShareRespond(r, 200, "success")]
  /\ UNCHANGED <<ledgerVars, donationVars, meetupVars, now, participants_created,
                 study_sessions, pow_sessions, discord_posts, discord_messages,
                 blink_calls, router, hist>>

PowSessionBodies ==
  [discord_id : {<<"1">>, <<"2">>}, start_time : {"2026-01-10T10:00:00Z"},
   duration_seconds : {60}]
    \cup { [discord_id |-> <<"1">>, start_time |-> "today", duration_seconds |-> 60] }

SettingsBodies == [donation_scope : {"session", "total", "all"}]

SessionsInit ==
  /\ pow_sessions = << >>
  /\ user_settings = [u \in UserIds |-> "session"]
  /\ discord_posts = << >>
  /\ discord_messages = 0
  /\ blink_calls = 0
  /\ study_sessions = << >>
  /\ router = "pow-sessions, users"
  /\ req = [p \in Procs |-> ShareIdle]
  /\ hist = << >>
  /\ donations = << >>
  /\ group_meetups = << >>
  /\ meetup_participants = << >>
  /\ ORGANIZER_DISCORD_IDS = << >>
  /\ user_accumulated_sats = << >>
  /\ accumulated_sats_logs = [u \in UserIds |-> << >>]
  /\ rowLock = [u \in UserIds |-> 0]
  /\ now = 0
  /\ participants_created = 0

SessionsNext ==
  \E p \in Procs :
    \/ \E body \in PowSessionBodies : PostPowSession(p, body)
    \/ \E d \in {<<"1">>, <<"2">>} : \E body \in SettingsBodies : PatchSettings(p, d, body)

\* ================================================================ all routers
\* the routers side by side: a behaviour serves the requests of one of them
RoutesInit ==
  \/ LedgerInit
  \/ DonationsInit
  \/ MeetupsInit
  \/ CheckInInit
  \/ OrganizerInit
  \/ AttendanceInit
  \/ ShareInit
  \/ SessionsInit

RoutesNext ==
  \/ router = "accumulated-sats" /\ LedgerNext
  \/ router = "donations" /\ DonationsNext
  \/ router = "meetups" /\ MeetupsNext
  \/ router = "meetups/check-in" /\ CheckInNext
  \/ router = "meetups/organizer" /\ OrganizerNext
  \/ router = "meetups/attendance" /\ AttendanceNext
  \/ router = "discord-posts" /\ ShareNext
  \/ router = "pow-sessions, users" /\ SessionsNext

SpecRoutes == RoutesInit /\ [][RoutesNext]_vars

\* ------------------------------------------------------- the ledger's claims
Balance(u) == IF HasRow(u) THEN user_accumulated_sats[u] ELSE 0

RECURSIVE SumAction(_, _, _)
SumAction(u, action, n) ==
  IF n = 0 THEN 0
  ELSE SumAction(u, action, n - 1) +
       (IF accumulated_sats_logs[u][n].action # action THEN 0
        ELSE IF action = "add" THEN accumulated_sats_logs[u][n].change_amount
        ELSE 0 - accumulated_sats_logs[u][n].change_amount)

Added(u) == SumAction(u, "add", Len(accumulated_sats_logs[u]))
Deducted(u) == SumAction(u, "deduct", Len(accumulated_sats_logs[u]))

TablesUnchanged == UNCHANGED <<user_accumulated_sats, accumulated_sats_logs>>

Answered(p, status, code) ==
  req'[p].pc = "done" /\ req'[p].status = status /\ req'[p].code = code

\* request p's stored procedure ends in this step (commit or exception)
AddEnds(p) == req[p].route = "add" /\ InFlight(p) /\ req'[p].pc = "done"

\* request p's deduct reads the balance in this step (it holds the row's lock)
DeductReads(p) == req[p].route = "deduct" /\ req[p].pc = "select" /\ req'[p].pc # "select"

\* C1: for every user that has a user_accumulated_sats row, accumulated_sats
\* equals the sum of change_amount over that user's accumulated_sats_logs rows:
\* validate_accumulated_sats reports is_valid = true for every row, after any
\* interleaving of successful and failed add and deduct calls.
C1_LedgerMatchesLogs == \A row \in validate_accumulated_sats : row.is_valid

\* a user with an add and a deduct in the log, after a request that failed
C1_Witness ==
  /\ \E u \in DOMAIN user_accumulated_sats :
       /\ Added(u) > 0 /\ Deducted(u) > 0
       /\ \A row \in validate_accumulated_sats : row.is_valid
  /\ \E p \in Procs : req[p].pc = "done" /\ req[p].status \in {400, 409, 500}

\* C2: a user's accumulated_sats is never negative, and the deducts that
\* succeeded for a user never withdrew, together, more than was credited to the
\* user, in every state reachable by interleaved add and deduct calls.
C2_BalanceNeverNegative ==
  \A u \in UserIds : Balance(u) >= 0 /\ Deducted(u) <= Added(u)

\* two deducts emptied a balance and a third request was refused for it
C2_Witness ==
  /\ \E u \in DOMAIN user_accumulated_sats :
       /\ user_accumulated_sats[u] = 0
       /\ Deducted(u) = Added(u)
       /\ Cardinality({ i \in 1..Len(accumulated_sats_logs[u]) :
                         accumulated_sats_logs[u][i].action = "deduct" }) = 2
  /\ \E p \in Procs : req[p].pc = "done" /\ req[p].code = "INSUFFICIENT_BALANCE"

\* at most one 'add' log per (user_id, session_id) with a session
AtMostOneAddLog ==
  \A u \in UserIds : \A i, j \in 1..Len(accumulated_sats_logs[u]) :
    ( /\ accumulated_sats_logs[u][i].action = "add"
      /\ accumulated_sats_logs[u][j].action = "add"
      /\ accumulated_sats_logs[u][i].session_id # NULL
      /\ accumulated_sats_logs[u][i].session_id = accumulated_sats_logs[u][j].session_id )
    => i = j

\* C3 as claimed: once an 'add' log exists for a user and a session, every
\* POST /add of that user and session is answered 409 DUPLICATE_SESSION and
\* leaves balance and logs unchanged; at most one 'add' log per (user, session).
C3_DuplicateAlways409 ==
  [][ /\ \A p \in Procs :
           (AddEnds(p) /\ DuplicateSession(req[p].user_id, req[p].session_id))
           => (Answered(p, 409, "DUPLICATE_SESSION") /\ TablesUnchanged)
      /\ AtMostOneAddLog' ]_vars

\* C3, amended: once an 'add' log exists for a user and a session, every POST
\* /add of that user and session is refused and leaves balance and logs
\* unchanged: with 409 DUPLICATE_SESSION, or with 500 when the sum of balance
\* and amount is out of the INTEGER range (the addition fails before the log
\* insert); at most one 'add' log exists per (user, session).
C3_DuplicateRefused ==
  [][ /\ \A p \in Procs :
           (AddEnds(p) /\ DuplicateSession(req[p].user_id, req[p].session_id))
           => /\ \/ Answered(p, 409, "DUPLICATE_SESSION")
                 \/ Answered(p, 500, "integer out of range")
              /\ TablesUnchanged
      /\ AtMostOneAddLog' ]_vars

\* a repeated add was answered 409 after its balance increment
C3_Witness ==
  \E p \in Procs :
    /\ req[p].pc = "done" /\ req[p].route = "add"
    /\ req[p].status = 409 /\ req[p].code = "DUPLICATE_SESSION"
    /\ \E u \in UserIds : \E s \in Sessions : DuplicateSession(u, s)

\* C4 as claimed: of two deducts of one user that run concurrently with the
\* same expected_balance at most one succeeds: no deduct succeeds after a
\* deduct with its expected_balance committed while it was in flight.
C4_AtMostOneSucceeds ==
  \A q \in Procs :
    (req[q].pc = "done" /\ req[q].route = "deduct" /\ req[q].status = 200)
    => ~hist[q].peer

\* C4, amended: of two deducts of one user that run concurrently with the same
\* expected_balance, the second succeeds only if an add to that user's balance
\* committed between the first's commit and the second's reading the balance
\* (the balance is back at expected_balance); otherwise it fails without
\* changing balance or logs.
C4_SecondNeedsCredit ==
  \A q \in Procs :
    (req[q].pc = "done" /\ req[q].route = "deduct" /\ req[q].status = 200 /\ hist[q].peer)
    => hist[q].credited

\* the second of two concurrent deducts saw the first's change and failed
C4_Witness ==
  \E q \in Procs :
    /\ req[q].pc = "done" /\ req[q].route = "deduct"
    /\ req[q].status = 409 /\ req[q].code = "BALANCE_MISMATCH"
    /\ hist[q].peer /\ ~hist[q].credited

C7_OnlyAllowedTransitions ==
  [][ /\ \A d \in DOMAIN donations :
           donations'[d].status # donations[d].status
             => donations'[d].status \in validTransitions(donations[d].status)
      /\ \A p \in Procs :
           (req'[p] # req[p] /\ req'[p].code = "INVALID_TRANSITION")
             => req'[p].status = 400 /\ donations' = donations ]_vars

\* C8: once the stored status of a donation is completed or cancelled, no
\* step changes it again
C8_TerminalStatuses ==
  [][ \A d \in DOMAIN donations :
        donations[d].status \in {"completed", "cancelled"}
          => donations'[d].status = donations[d].status ]_vars

\* C9 as stated: every donation whose status is completed was in status paid
\* before, whichever route created or updated it
C9_CompletedWasPaid ==
  \A d \in DOMAIN donations :
    donations[d].status = "completed" => hist[d].wasPaid

\* C9: every donation whose status is completed was in status paid before,
\* unless its row was inserted with status completed (POST /api/donations with
\* status 'completed', or the meet-up's complete-donation)
C9_CompletedWasPaidOrCreatedCompleted ==
  \A d \in DOMAIN donations :
    donations[d].status = "completed"
      => hist[d].wasPaid \/ hist[d].created = "completed"

\* a donation created pending that PATCH requests took to completed
C9_Witness ==
  \E d \in DOMAIN donations :
    /\ donations[d].status = "completed"
    /\ hist[d].created = "pending"
    /\ hist[d].wasPaid

\* ------------------------------------------------------ the meet-ups' claims
\* the ids the environment variable lists
Listed(discord_id) ==
  \E i \in 1..Len(IdList(ORGANIZER_DISCORD_IDS)) :
    IdList(ORGANIZER_DISCORD_IDS)[i] = discord_id

DiscordIdOf(user_id) == (CHOOSE u \in users : u.id = user_id).discord_id

\* request p is answered in this step (a repeated request with the same answer
\* changes req only when it inserts nothing, and then nothing changes at all)
MeetupAnswered(p) == req'[p] # req[p] /\ req'[p].route = "create-meetup"

\* C10 as stated: a group_meetups row is inserted only for a discord_id listed
\* in ORGANIZER_DISCORD_IDS; every other known user sending a well-formed body
\* is answered 403 and no row is inserted
C10_OnlyListedCreate ==
  [][ /\ \A i \in DOMAIN group_meetups' :
           i \notin DOMAIN group_meetups
             => Listed(DiscordIdOf(group_meetups'[i].organizer_id))
      /\ \A p \in Procs :
           ( /\ MeetupAnswered(p)
             /\ req'[p].status # 400
             /\ LookupUser(req'[p].discord_id) # NULL
             /\ ~Listed(req'[p].discord_id) )
             => req'[p].status = 403 /\ group_meetups' = group_meetups ]_vars

\* ORGANIZER_DISCORD_IDS lists no id at all: unset, empty, or only commas and
\* blanks
NoOrganizerConfigured == Len(IdList(ORGANIZER_DISCORD_IDS)) = 0

\* C10: when ORGANIZER_DISCORD_IDS lists at least one id, a group_meetups row
\* is inserted only for a listed discord_id, and every other known user sending
\* a well-formed body is answered 403 and no row is inserted
C10_OnlyListedCreateWhenConfigured ==
  [][ ~NoOrganizerConfigured =>
      /\ \A i \in DOMAIN group_meetups' :
           i \notin DOMAIN group_meetups
             => Listed(DiscordIdOf(group_meetups'[i].organizer_id))
      /\ \A p \in Procs :
           ( /\ MeetupAnswered(p)
             /\ req'[p].status # 400
             /\ LookupUser(req'[p].discord_id) # NULL
             /\ ~Listed(req'[p].discord_id) )
             => req'[p].status = 403 /\ group_meetups' = group_meetups ]_vars

\* with an id configured, a listed user has created a meet-up and a known user
\* who is not listed has been answered 403
C10_Witness ==
  /\ ~NoOrganizerConfigured
  /\ \E i \in DOMAIN group_meetups : Listed(DiscordIdOf(group_meetups[i].organizer_id))
  /\ \E p \in Procs :
       /\ req[p].route = "create-meetup" /\ req[p].pc = "done"
       /\ req[p].status = 403
       /\ LookupUser(req[p].discord_id) # NULL
       /\ ~Listed(req[p].discord_id)

\* ------------------------------------------------------- the QR codes' claims
\* C13: a QR code verified unaltered with the key it was generated with, no
\* more than 3600 seconds after its generation, is valid with the same
\* meetupId; verified with another key, or altered in any character, it is
\* not valid
C13_RoundTrip ==
  hist.pc = "verified" =>
    /\ ( /\ hist.qrData = hist.original
         /\ hist.secretKey = req.secretKey
         /\ now - hist.generated_at <= 3600 )
         => hist.result.valid /\ hist.result.meetupId = req.meetupId
    /\ (hist.secretKey # req.secretKey \/ hist.qrData # hist.original)
         => ~hist.result.valid

\* ------------------------------------------------ the organizer routes' claims
OrganizerRoutes == {"generate-qr", "update-status"}

\* the request answered by r came from the organizer of the meetup in its path
FromOrganizer(r) ==
  /\ r.meetupId \in DOMAIN group_meetups
  /\ r.discord_id = DiscordIdOf(group_meetups[r.meetupId].organizer_id)

\* request p of an organizer route is answered in this step
OrganizerAnswered(p) == req'[p] # req[p] /\ req'[p].route \in OrganizerRoutes

\* a row of group_meetups changes only with a 200 answer to its organizer
ChangedByOrganizer ==
  group_meetups' # group_meetups
    => \E p \in Procs :
         /\ req'[p].pc = "done" /\ req'[p].route \in OrganizerRoutes
         /\ req'[p].status = 200
         /\ FromOrganizer(req'[p])
         /\ \A m \in DOMAIN group_meetups :
              group_meetups'[m] # group_meetups[m] => m = req'[p].meetupId

\* C11 as stated: generate-qr and update-status change a meetup only for its
\* organizer's discord_id; a request with any other discord_id is answered 403
\* and changes no meetup row
C11_OnlyOrganizer ==
  [][ /\ ChangedByOrganizer
      /\ \A p \in Procs :
           (OrganizerAnswered(p) /\ ~FromOrganizer(req'[p]))
             => req'[p].status = 403 /\ group_meetups' = group_meetups ]_vars

\* C11: generate-qr and update-status change a meetup only for its organizer's
\* discord_id; a request with any other discord_id changes no meetup row and is
\* answered 403, or 400 when update-status carries a status outside in_progress,
\* completed, cancelled
C11_OnlyOrganizerOr400 ==
  [][ /\ ChangedByOrganizer
      /\ \A p \in Procs :
           (OrganizerAnswered(p) /\ ~FromOrganizer(req'[p]))
             => /\ group_meetups' = group_meetups
                /\ \/ req'[p].status = 403
                   \/ /\ req'[p].route = "update-status"
                      /\ req'[p].status = 400 /\ req'[p].code = "INVALID_BODY" ]_vars

\* the organizer has generated a QR code and set a status, and a request that
\* is not the organizer's was answered 403
C11_Witness ==
  /\ group_meetups[1].qr_code_data # << >>
  /\ group_meetups[1].status = "in_progress"
  /\ \E p, q \in Procs :
       /\ req[p].pc = "done" /\ req[p].route \in OrganizerRoutes
       /\ req[p].status = 200 /\ FromOrganizer(req[p])
       /\ req[q].pc = "done" /\ req[q].route \in OrganizerRoutes
       /\ req[q].status = 403 /\ ~FromOrganizer(req[q])

\* ------------------------------------------------------- the check-in's claims
\* the fields of a qrData
QRFields(qr_data) == SplitOn(qr_data, ":")

\* the QR data has the form meetup:{id}:{timestamp}:{checksum} and its checksum
\* is the HMAC of '{id}:{timestamp}'
QRChecksumMatches(qr_data) ==
  LET f == QRFields(qr_data) IN
  /\ Len(f) = 4 /\ f[1] = Str_meetup
  /\ f[4] = generateHMAC(f[2] \o <<":">> \o f[3], SUPABASE_ANON_KEY)

\* the QR's timestamp is a number no more than 3600 seconds before t
QRNotExpired(qr_data, t) ==
  LET f == QRFields(qr_data) IN
  /\ Len(f) = 4
  /\ ~parseInt(f[3]).nan
  /\ t - parseInt(f[3]).value <= 3600

QRForMeetup(qr_data, meetupId) ==
  LET f == QRFields(qr_data) IN Len(f) = 4 /\ f[2] = IntToStr(meetupId)

\* the user of request r is a participant of its meetup, not checked in
ParticipantNotCheckedIn(r) ==
  LET k == <<r.meetupId, LookupUser(r.discord_id)>> IN
  /\ k \in DOMAIN meetup_participants
  /\ ~meetup_participants[k].attended

CheckInConditions(r) ==
  /\ QRChecksumMatches(r.qr_data)
  /\ QRNotExpired(r.qr_data, now)
  /\ QRForMeetup(r.qr_data, r.meetupId)
  /\ ParticipantNotCheckedIn(r)

\* request p of check-in is decided in this step
CheckInDecided(p) ==
  req[p].pc = "received" /\ req[p].route = "check-in" /\ req'[p] # req[p]

\* C12: a check-in whose QR data, meetup or participant fails one of the
\* conditions is answered 400 (404 for an unknown user) and changes no
\* attendance; attended becomes true only by a request that passed them
C12_CheckInOnlyIf ==
  [][ /\ \A p \in Procs :
           (CheckInDecided(p) /\ ~CheckInConditions(req[p]))
             => /\ req'[p].pc = "done"
                /\ req'[p].status = (IF LookupUser(req[p].discord_id) = NULL THEN 404 ELSE 400)
                /\ meetup_participants' = meetup_participants
      /\ \A k \in DOMAIN meetup_participants :
           (meetup_participants'[k].attended /\ ~meetup_participants[k].attended)
             => \E p \in Procs :
                  /\ req[p].pc = "update" /\ req[p].route = "check-in"
                  /\ req[p].participant_id = meetup_participants[k].id
                  /\ QRChecksumMatches(req[p].qr_data)
                  /\ QRForMeetup(req[p].qr_data, k[1]) ]_vars

\* the instants at which generate-qr makes this qrData for a meetup
GeneratedAt(qr_data) ==
  { t \in Times : \E m \in 1..2 :
      qr_data = generateQRData(IntToStr(m), SUPABASE_ANON_KEY, t).qrData }

\* the QR presented was generated more than 3600 seconds ago
GeneratedLongAgo(qr_data) == \E t \in GeneratedAt(qr_data) : now - t > 3600

\* request p of generate-qr is answered 200 in this step
QRGenerated(p) ==
  req'[p] # req[p] /\ req'[p].route = "generate-qr" /\ req'[p].status = 200

\* expires_at, in the answer and in the meetup row, is the generation time
\* (the timestamp in the QR data) + 3600 seconds
ExpiresOneHourAfter(p) ==
  LET m == req'[p].meetupId IN
  /\ req'[p].qr_data = generateQRData(IntToStr(m), SUPABASE_ANON_KEY, now).qrData
  /\ req'[p].expires_at = (now + 3600) * 1000
  /\ group_meetups'[m].qr_code_data = req'[p].qr_data
  /\ group_meetups'[m].qr_code_expires_at = req'[p].expires_at

\* C14 as stated: a check-in presenting a QR generated more than 3600 seconds
\* ago is rejected with 'QR code expired' and records no attendance, and the
\* expires_at of generate-qr is the generation time + 3600 seconds
C14_ExpiresAfterOneHour ==
  [][ /\ \A p \in Procs :
           (CheckInDecided(p) /\ GeneratedLongAgo(req[p].qr_data))
             => /\ req'[p].pc = "done"
                /\ req'[p].status = 400 /\ req'[p].code = "QR code expired"
                /\ meetup_participants' = meetup_participants
      /\ \A p \in Procs : QRGenerated(p) => ExpiresOneHourAfter(p) ]_vars

\* C14: a check-in presenting a QR generated more than 3600 seconds ago records
\* no attendance and is rejected, with 400 'QR code expired' for a known user
\* and 404 'User not found' for an unknown one; the expires_at of generate-qr is
\* the generation time + 3600 seconds
C14_ExpiresAfterOneHourKnownUser ==
  [][ /\ \A p \in Procs :
           (CheckInDecided(p) /\ GeneratedLongAgo(req[p].qr_data))
             => /\ req'[p].pc = "done"
                /\ IF LookupUser(req[p].discord_id) = NULL
                   THEN req'[p].status = 404 /\ req'[p].code = "User not found"
                   ELSE req'[p].status = 400 /\ req'[p].code = "QR code expired"
                /\ meetup_participants' = meetup_participants
      /\ \A p \in Procs : QRGenerated(p) => ExpiresOneHourAfter(p) ]_vars

\* a QR code generated at 0 is in the meetup row, the clock reads 3601 and a
\* check-in has been rejected as expired
C14_Witness ==
  /\ now = 3601
  /\ group_meetups[1].qr_code_expires_at = 3600000
  /\ \E p \in Procs :
       /\ req[p].pc = "done" /\ req[p].route = "check-in"
       /\ req[p].status = 400 /\ req[p].code = "QR code expired"

\* ------------------------------------------------------ the attendance's claims
\* the donation records complete-donation created for a meetup and a user
MeetupDonations(m, u) ==
  { d \in DOMAIN donations : hist[d].meetup = m /\ donations[d].user_id = u }

\* request p of complete-donation passes the checks in this step
CompleteDonationAccepted(p) ==
  /\ req'[p].route = "complete-donation" /\ req'[p].pc = "insert"
  /\ req[p].pc # "insert"

\* C15: for each meetup and user at most one donation record is created, and a
\* complete-donation request arriving once the user has donated is rejected
C15_DonateOnce ==
  [][ /\ \A m \in DOMAIN group_meetups : \A u \in UserIds :
           Cardinality({ d \in DOMAIN donations' :
                           hist'[d].meetup = m /\ donations'[d].user_id = u }) <= 1
      /\ \A p \in Procs :
           CompleteDonationAccepted(p)
             => MeetupDonations(req'[p].meetupId, req'[p].user_id) = {} ]_vars

\* -------------------------------------------------------- the rankings' claims
\* a by-category request for the ranking by time has been answered
RankingAnswered == req.pc = "done" /\ req.status = 200 /\ req.type = <<"t", "i", "m", "e">>

\* the sessions of the requested category that have a user
EligibleSessions ==
  { i \in 1..Len(study_sessions) :
      /\ req.category = <<"a", "l", "l">> \/ study_sessions[i].donation_mode = req.category
      /\ study_sessions[i].users # << >> }

EligibleUsers == { study_sessions[i].users[1] : i \in EligibleSessions }

SessionsOf(discord_id) ==
  { i \in EligibleSessions : study_sessions[i].users[1] = discord_id }

\* duration_seconds, or duration_minutes * 60 when duration_seconds is null,
\* or 0 when both are missing
DurationOf(session) ==
  IF session.duration_seconds # NULL THEN session.duration_seconds
  ELSE IF session.duration_minutes # NULL THEN session.duration_minutes * 60
  ELSE 0

RECURSIVE TotalDuration(_)
TotalDuration(S) ==
  IF S = {} THEN 0
  ELSE LET i == CHOOSE i \in S : TRUE
       IN DurationOf(study_sessions[i]) + TotalDuration(S \ {i})

\* every entry is the aggregate of one user's eligible sessions, no user has
\* two entries, the order is by non-increasing total_seconds, rank is the position
RankingEntriesRight ==
  LET data == req.data
  IN /\ \A i, j \in 1..Len(data) : i # j => data[i].discord_id # data[j].discord_id
     /\ \A i \in 1..Len(data) :
          /\ data[i].discord_id \in EligibleUsers
          /\ data[i].total_seconds = TotalDuration(SessionsOf(data[i].discord_id))
          /\ data[i].session_count = Cardinality(SessionsOf(data[i].discord_id))
          /\ data[i].rank = i
     /\ \A i \in 1..(Len(data) - 1) : data[i].total_seconds >= data[i + 1].total_seconds

\* the limit of the request as a number
LimitNumber == parseInt(req.limit)

\* C17: GET /api/rankings/by-category with type=time returns one entry per
\* distinct discord_id among the sessions of the requested category that have
\* a user, with total_seconds the sum of the user's durations and
\* session_count the number of the user's sessions, in non-increasing order
\* of total_seconds, rank the 1-based position, and at most 'limit' entries
\* (no entry when 'limit' is negative, every user's entry when there are no
\* more than 'limit' users).
C17_ByCategoryTime ==
  RankingAnswered =>
    /\ RankingEntriesRight
    /\ ~LimitNumber.nan =>
         /\ Len(req.data) <= (IF LimitNumber.value < 0 THEN 0 ELSE LimitNumber.value)
         /\ Cardinality(EligibleUsers) <= LimitNumber.value =>
              \A d \in EligibleUsers : \E i \in 1..Len(req.data) : req.data[i].discord_id = d

\* --------------------------------------------------- the discord posts' claims
\* request p is answered success by POST /api/discord-posts/share in this step
ShareSucceeds(p) ==
  /\ req[p].route = "share" /\ req[p].pc = "update"
  /\ req'[p].pc = "done" /\ req'[p].status = 200

MessagePosted(message_id) == message_id \in 1..discord_messages

PostRowExists(message_id) ==
  \E i \in 1..Len(discord_posts) : discord_posts[i].message_id = message_id

\* the pow session session_id has the message's id and status 'completed'
SessionShared(session_id, message_id) ==
  \E i \in 1..Len(pow_sessions) :
    /\ pow_sessions[i].id = session_id
    /\ pow_sessions[i].discord_message_id = message_id
    /\ pow_sessions[i].status = "completed"

\* C18: whenever POST /api/discord-posts/share answers success with a
\* message_id, the Discord message was posted, a discord_posts row with that
\* message_id exists and, if a session_id was given, that pow session has
\* discord_message_id equal to the message_id and status 'completed'.
C18_ShareSuccess ==
  [][ \A p \in Procs :
        ShareSucceeds(p) =>
          /\ MessagePosted(req[p].message_id)'
          /\ PostRowExists(req[p].message_id)'
          /\ req[p].session_id # << >> =>
               SessionShared(req[p].session_id[1], req[p].message_id)' ]_vars

\* ------------------------------------------------------- all routers' claims
\* the rows of every table; the calls made to Discord and to the wallet API
Database ==
  <<user_accumulated_sats, accumulated_sats_logs, donations, group_meetups,
    meetup_participants, study_sessions, pow_sessions, discord_posts, user_settings>>

ExternalCalls == <<discord_messages, blink_calls>>

\* r is the record of a request answered with a 4xx status
Is4xx(r) == r.pc = "done" /\ r.status \in 400..499

\* r is the record of a request in flight that has written to the database
\* or called Discord or the wallet API
HasActed(r) ==
  \/ r.route = "share" /\ r.pc \in {"send", "insert", "update"}
  \/ r.route = "complete-donation" /\ r.pc = "update"

====
